---- MODULE Spec2Model ----
(***************************************************************************)
(* Payroll disbursement of byMCP: the idempotency ledger                   *)
(* (skills/payroll/idempotency.py), the Qonto client                       *)
(* (skills/payroll/qonto_client.py), the page matcher                      *)
(* (skills/payroll/pdf_processor.py) and the transfer loop of              *)
(* payroll_process (skills/payroll/__init__.py).                           *)
(*                                                                         *)
(* Strings the code transforms (names, periods, the pre-hash string) are   *)
(* sequences of one-character strings.  sha256 is taken to be injective,   *)
(* so a key is its pre-hash string.                                        *)
(*                                                                         *)
(* Spec       runs one after another, attempt by attempt                   *)
(* SpecConc   two runs at the same time                                    *)
(* SpecClient one run, each _request call with its waits and each pass of  *)
(*            the approval wait with the clock                             *)
(* SpecLedger the ledger functions called in any order                     *)
(* SpecPdf    process_pdf on one document, page after page                 *)
(***************************************************************************)
EXTENDS Integers, Sequences, FiniteSets, TLC

(* ------------------------------------------------------------------ *)
(* Bounds                                                             *)
(* ------------------------------------------------------------------ *)

\* Number of payroll_process invocations in one behaviour.
MaxRuns == 2

\* Number of ledger calls in one behaviour of the ledger on its own.
MaxCalls == 4

\* The worker processes: one in the sequential specification, both in the
\* concurrent one.
Procs == {1, 2}

SeqProcs == {1}

(* ------------------------------------------------------------------ *)
(* Strings                                                            *)
(* ------------------------------------------------------------------ *)

\* str.lower() on the letters the model uses.
LowerChar(c) ==
    CASE c = "A" -> "a"
      [] c = "B" -> "b"
      [] c = "C" -> "c"
      [] c = "D" -> "d"
      [] c = "E" -> "e"
      [] c = "F" -> "f"
      [] c = "G" -> "g"
      [] c = "H" -> "h"
      [] c = "I" -> "i"
      [] c = "J" -> "j"
      [] c = "K" -> "k"
      [] c = "L" -> "l"
      [] c = "M" -> "m"
      [] c = "N" -> "n"
      [] c = "O" -> "o"
      [] c = "P" -> "p"
      [] c = "Q" -> "q"
      [] c = "R" -> "r"
      [] c = "S" -> "s"
      [] c = "T" -> "t"
      [] c = "U" -> "u"
      [] c = "V" -> "v"
      [] c = "W" -> "w"
      [] c = "X" -> "x"
      [] c = "Y" -> "y"
      [] c = "Z" -> "z"
      [] c = "Ü" -> "ü"
      [] OTHER -> c

Lower(s) == [i \in 1..Len(s) |-> LowerChar(s[i])]

IsSpace(c) == c \in {" ", "\t", "\n"}

RECURSIVE LStrip(_)
LStrip(s) ==
    IF s # <<>> /\ IsSpace(Head(s)) THEN LStrip(Tail(s)) ELSE s

RECURSIVE RStrip(_)
RStrip(s) ==
    IF s # <<>> /\ IsSpace(s[Len(s)]) THEN RStrip(SubSeq(s, 1, Len(s) - 1)) ELSE s

\* str.strip()
Strip(s) == RStrip(LStrip(s))

DigitChar(d) == <<"0", "1", "2", "3", "4", "5", "6", "7", "8", "9">>[d + 1]

\* str(n) of a natural number.
RECURSIVE NatStr(_)
NatStr(n) ==
    IF n < 10 THEN <<DigitChar(n)>> ELSE NatStr(n \div 10) \o <<DigitChar(n % 10)>>

\* str(n) of an integer (the "{amount_cents}" of the f-string).
IntStr(n) == IF n < 0 THEN <<"-">> \o NatStr(0 - n) ELSE NatStr(n)

(* ------------------------------------------------------------------ *)
(* Idempotency ledger (idempotency.py)                                *)
(* ------------------------------------------------------------------ *)

\* A key over the name as given, neither stripped nor lowered.
make_idempotency_key_Raw(name, period, amount_cents) ==
    name \o <<"|">> \o period \o <<"|">> \o IntStr(amount_cents)

\* make_idempotency_key: sha256 of "<name.strip().lower()>|<period>|<amount>".
make_idempotency_key(name, period, amount_cents) ==
    Lower(Strip(name)) \o <<"|">> \o period \o <<"|">> \o IntStr(amount_cents)

\* SQL NULL / Python None in the transfer_id column.
None == <<>>

\* The status compared with a literal no row ever carries.
is_already_processed_WrongLiteral(led, key) ==
    key \in DOMAIN led /\ led[key].status = "succeeded"

\* The status compared with 'pending' instead of 'success'.
is_already_processed_WrongStatus(led, key) ==
    key \in DOMAIN led /\ led[key].status = "pending"

\* The status compared with 'failed' instead of 'success'.
is_already_processed_Failed(led, key) ==
    key \in DOMAIN led /\ led[key].status = "failed"

\* The status never looked at: any row counts as processed.
is_already_processed_AnyRow(led, key) ==
    key \in DOMAIN led

\* is_already_processed: a row exists and its status is 'success'.
is_already_processed(led, key) ==
    key \in DOMAIN led /\ led[key].status = "success"

\* An insert that leaves an existing row alone (ON CONFLICT DO NOTHING).
record_pending_DoNothing(led, key, name, period, amount_cents, now) ==
    IF key \in DOMAIN led
    THEN led
    ELSE led @@ (key :> [employee_name |-> name,
                         period        |-> period,
                         amount_cents  |-> amount_cents,
                         status        |-> "pending",
                         transfer_id   |-> None,
                         created_at    |-> now,
                         updated_at    |-> now])

\* An insert that replaces an existing row whole (INSERT OR REPLACE).
record_pending_Replace(led, key, name, period, amount_cents, now) ==
    [k \in DOMAIN led \cup {key} |->
       IF k = key
       THEN [employee_name |-> name,
             period        |-> period,
             amount_cents  |-> amount_cents,
             status        |-> "pending",
             transfer_id   |-> None,
             created_at    |-> now,
             updated_at    |-> now]
       ELSE led[k]]

\* record_pending: INSERT ... ON CONFLICT DO UPDATE SET status, updated_at.
record_pending(led, key, name, period, amount_cents, now) ==
    IF key \in DOMAIN led
    THEN [led EXCEPT ![key].status = "pending", ![key].updated_at = now]
    ELSE led @@ (key :> [employee_name |-> name,
                         period        |-> period,
                         amount_cents  |-> amount_cents,
                         status        |-> "pending",
                         transfer_id   |-> None,
                         created_at    |-> now,
                         updated_at    |-> now])

\* A record_success that inserts the row when the key is absent.
record_success_Upsert(led, key, transfer_id, now) ==
    IF key \in DOMAIN led
    THEN [led EXCEPT ![key].status = "success",
                     ![key].transfer_id = transfer_id,
                     ![key].updated_at = now]
    ELSE led @@ (key :> [employee_name |-> <<>>,
                         period        |-> <<>>,
                         amount_cents  |-> 0,
                         status        |-> "success",
                         transfer_id   |-> transfer_id,
                         created_at    |-> now,
                         updated_at    |-> now])

\* record_success: UPDATE ... SET status='success', transfer_id, updated_at.
record_success(led, key, transfer_id, now) ==
    IF key \in DOMAIN led
    THEN [led EXCEPT ![key].status = "success",
                     ![key].transfer_id = transfer_id,
                     ![key].updated_at = now]
    ELSE led

\* record_failure: UPDATE ... SET status='failed', updated_at.
record_failure(led, key, now) ==
    IF key \in DOMAIN led
    THEN [led EXCEPT ![key].status = "failed", ![key].updated_at = now]
    ELSE led


\* The place of a character in SQLite's BINARY collation (its code point),
\* for the characters of a period.
Ord(c) ==
    CASE c = "-" -> 45
      [] c = "0" -> 48
      [] c = "1" -> 49
      [] c = "2" -> 50
      [] c = "3" -> 51
      [] c = "4" -> 52
      [] c = "5" -> 53
      [] c = "6" -> 54
      [] c = "7" -> 55
      [] c = "8" -> 56
      [] c = "9" -> 57

\* a < b as TEXT: byte by byte, a proper prefix first.
RECURSIVE TextLess(_, _)
TextLess(a, b) ==
    IF b = <<>> THEN FALSE
    ELSE IF a = <<>> THEN TRUE
    ELSE IF Head(a) # Head(b) THEN Ord(Head(a)) < Ord(Head(b))
    ELSE TextLess(Tail(a), Tail(b))

\* An ordering by creation time, oldest first.
SortsBefore_Ascending(a, b, by_period) ==
    \/ by_period /\ TextLess(b.period, a.period)
    \/ (by_period => a.period = b.period) /\ a.created_at < b.created_at

\* Row a comes before row b under ORDER BY period DESC, created_at DESC
\* (by_period), or under ORDER BY created_at DESC alone.
SortsBefore(a, b, by_period) ==
    \/ by_period /\ TextLess(b.period, a.period)
    \/ (by_period => a.period = b.period) /\ a.created_at > b.created_at

\* dict(r) of a row: the key column with the others.
RowDict(led, k) ==
    [idempotency_key |-> k,
     employee_name   |-> led[k].employee_name,
     period          |-> led[k].period,
     amount_cents    |-> led[k].amount_cents,
     status          |-> led[k].status,
     transfer_id     |-> led[k].transfer_id,
     created_at      |-> led[k].created_at,
     updated_at      |-> led[k].updated_at]

\* The rows of keys S in the order of the ORDER BY clause; rows the clause
\* does not tell apart come in any order.
RECURSIVE Ordered(_, _, _)
Ordered(led, S, by_period) ==
    IF S = {} THEN <<>>
    ELSE LET k == CHOOSE x \in S : \A y \in S : ~SortsBefore(led[y], led[x], by_period)
         IN  <<RowDict(led, k)>> \o Ordered(led, S \ {k}, by_period)

\* query_all: with a period (a non-empty one: `if period`) the rows of that
\* period by creation time, newest first; without, all rows by period and
\* creation time, both descending.
query_all(led, period) ==
    IF period # <<>>
    THEN Ordered(led, {k \in DOMAIN led : led[k].period = period}, FALSE)
    ELSE Ordered(led, DOMAIN led, TRUE)

\* payroll_check_transfer: the key of the triple, is_already_processed on it,
\* and the status phrase of the answer.
payroll_check_transfer(led, name, period, amount_cents) ==
    LET key  == make_idempotency_key(name, period, amount_cents)
        done == is_already_processed(led, key)
    IN  IF done THEN "bereits erfolgreich ausgefuehrt" ELSE "noch nicht verarbeitet"

(* ------------------------------------------------------------------ *)
(* Inputs of a run                                                    *)
(* ------------------------------------------------------------------ *)

NameAl == <<"A", "l">>

NameAlLower == <<"a", "l">>

NameBo == <<"B", "o">>

\* NameAl as another file may spell it: upper case, blanks around it.
NameAlPadded == <<" ", "A", "L", "\t">>

Period01 == <<"0", "1">>

Period02 == <<"0", "2">>

\* An Employee after parse_csv and process_pdf: name, iban and the amount the
\* matcher extracted (0: no page matched or no amount found).
Employee(name, iban, amount_cents) ==
    [name |-> name, iban |-> iban, amount_cents |-> amount_cents]

\* The (roster, period) pairs payroll_process is invoked with.  process_pdf
\* gives a page to the first employee of the highest score, so two employees
\* whose names differ only in case never both carry an amount.
Inputs ==
    { [employees |-> <<Employee(NameAl, "DE01", 7), Employee(NameBo, "DE02", 12)>>,
       period    |-> Period01],
      [employees |-> <<Employee(NameBo, "DE02", 0), Employee(NameAlLower, "DE01", 7)>>,
       period    |-> Period01],
      [employees |-> <<Employee(NameAl, "DE01", 12)>>,
       period    |-> Period02] }

\* The inputs of the concurrent invocations: the same roster and period, or
\* a roster sharing one employee with it.
ConcInputs ==
    { [employees |-> <<Employee(NameAl, "DE01", 7)>>,
       period    |-> Period01],
      [employees |-> <<Employee(NameBo, "DE02", 0), Employee(NameAlLower, "DE01", 7)>>,
       period    |-> Period01] }

(* ------------------------------------------------------------------ *)
(* State                                                              *)
(* ------------------------------------------------------------------ *)

VARIABLES
    ledger,     \* the transfers table: idempotency_key -> row
    clock,      \* datetime.utcnow() as a logical time
    bank,       \* the transfers the bank has created
    proc,       \* per process: the locals of payroll_process / create_transfer
    runs,       \* invocations of payroll_process so far
    confirmed   \* keys the bank answered Created or a true idempotency conflict

vars == <<ledger, clock, bank, proc, runs, confirmed>>

NoResult == [success |-> FALSE, transfer_id |-> None, error |-> "", status_code |-> 0]

NoResp == [status |-> 0, kind |-> "none", body |-> <<>>, id |-> None, sca_session_token |-> ""]

\* No _request call has been made yet in the current create_transfer.
NoRun == [outcome |-> "none", resp |-> NoResp, attempts |-> 0, waits |-> <<>>, elapsed |-> 0]

\* No payroll_list_transfers call has been answered yet.
NoListing == [period |-> None, rows |-> <<>>]

\* process_pdf has not been called: its locals and result, and the files
\* under the output paths.
NoPdf ==
    [pc              |-> "none",
     employees       |-> <<>>,
     period          |-> <<>>,
     skip_save       |-> {},
     pages           |-> <<>>,
     idx             |-> 0,
     amount          |-> 0,
     best_score      |-> 0,
     best_emp        |-> 0,
     saved_files     |-> <<>>,
     unmatched_pages |-> <<>>,
     errors          |-> <<>>,
     files           |-> {}]

\* _german_amount_to_cents has not been called: its argument and result.
NoCents == [amount_str |-> <<>>, cents |-> <<>>]

\* parse_csv has not been called.
NoCsv == [employees |-> <<>>, errors |-> <<>>]

\* A process that is not inside payroll_process.
IdleProc ==
    [pc            |-> "idle",
     employees     |-> <<>>,
     period        |-> <<>>,
     idx           |-> 1,
     logs          |-> <<>>,
     transfer_ok   |-> <<>>,
     transfer_fail |-> <<>>,
     key           |-> <<>>,
     attempt       |-> 1,
     vop_token     |-> "",
     sca_token     |-> "",
     resp          |-> NoResp,
     result        |-> NoResult,
     startStatus   |-> "absent",
     netLog        |-> {},
     after         |-> "idle",
     repeat        |-> FALSE,
     prev_ok       |-> <<>>,
     script        |-> <<>>,
     last          |-> NoRun,
     now           |-> 0,
     deadline      |-> 0,
     last_log_at   |-> 0,
     note          |-> <<>>,
     wait          |-> "none",
     listing       |-> NoListing,
     pdf           |-> NoPdf,
     cents         |-> NoCents,
     csv_result    |-> NoCsv,
     skip_transfers |-> FALSE,
     returned      |-> "none"]

Init ==
    /\ ledger = <<>>
    /\ clock = 1
    /\ bank = {}
    /\ proc = [p \in Procs |-> IdleProc]
    /\ runs = 0
    /\ confirmed = {}

\* The employee the for-loop of payroll_process stands at.
Emp(p) == proc[p].employees[proc[p].idx]

\* logs.append(f"[{level}] ...") of the transfer loop: level, message, employee.
Log(p, level, msg) == Append(proc[p].logs, <<level, msg, Emp(p).name>>)

\* The status of a key's row, "absent" when there is none.
StatusOf(led, key) == IF key \in DOMAIN led THEN led[key].status ELSE "absent"

(* ------------------------------------------------------------------ *)
(* payroll_process: entry and the head of the transfer loop           *)
(* ------------------------------------------------------------------ *)

\* payroll_process up to the transfer loop: roster parsed, pages matched,
\* QontoClient constructed.  `after` is how the process's previous run ended;
\* `repeat` and `prev_ok` say that the previous run returned, had these very
\* inputs, and whom it reported as succeeded.
StartRun(p, inputs) ==
    /\ proc[p].pc \in {"idle", "done", "dead", "raised"}
    /\ runs < MaxRuns
    /\ \E inp \in inputs :
         LET same == /\ proc[p].pc = "done"
                     /\ proc[p].employees = inp.employees
                     /\ proc[p].period = inp.period
         IN  proc' = [proc EXCEPT ![p] =
                        [IdleProc EXCEPT !.pc = "loop",
                                         !.employees = inp.employees,
                                         !.period = inp.period,
                                         !.after = proc[p].pc,
                                         !.repeat = same,
                                         !.prev_ok = IF same THEN proc[p].transfer_ok
                                                     ELSE <<>>]]
    /\ runs' = runs + 1
    /\ UNCHANGED <<ledger, clock, bank, confirmed>>

\* The loop is exhausted: the summary is appended and the tool returns.
Summary(p) ==
    /\ proc[p].pc = "loop"
    /\ proc[p].idx > Len(proc[p].employees)
    /\ proc' = [proc EXCEPT ![p].pc = "done", ![p].returned = "summary"]
    /\ UNCHANGED <<ledger, clock, bank, runs, confirmed>>

\* A loop head without the amount check: the employee goes on to
\* record_pending whatever the amount.
SkipNoAmount_Pays(p) ==
    /\ proc[p].pc = "loop"
    /\ proc[p].idx <= Len(proc[p].employees)
    /\ Emp(p).amount_cents <= 0
    /\ LET key == make_idempotency_key(Emp(p).name, proc[p].period, Emp(p).amount_cents)
       IN  proc' = [proc EXCEPT ![p].key = key,
                                ![p].startStatus = StatusOf(ledger, key),
                                ![p].pc = "pending"]
    /\ UNCHANGED <<ledger, clock, bank, runs, confirmed>>

\* if emp.amount_cents <= 0: warn, count as failed, continue.
SkipNoAmount(p) ==
    /\ proc[p].pc = "loop"
    /\ proc[p].idx <= Len(proc[p].employees)
    /\ Emp(p).amount_cents <= 0
    /\ proc' = [proc EXCEPT ![p].logs = Log(p, "WARNING", "kein Betrag"),
                            ![p].transfer_fail = Append(@, Emp(p).name),
                            ![p].idx = @ + 1]
    /\ UNCHANGED <<ledger, clock, bank, runs, confirmed>>

\* A skip of an already processed employee that counts them in neither list.
SkipProcessed_Uncounted(p) ==
    /\ proc[p].pc = "loop"
    /\ proc[p].idx <= Len(proc[p].employees)
    /\ Emp(p).amount_cents > 0
    /\ LET key == make_idempotency_key(Emp(p).name, proc[p].period, Emp(p).amount_cents)
       IN  /\ is_already_processed(ledger, key)
           /\ proc' = [proc EXCEPT ![p].logs = Log(p, "INFO", "bereits verarbeitet"),
                                   ![p].key = key,
                                   ![p].startStatus = StatusOf(ledger, key),
                                   ![p].idx = @ + 1]
    /\ UNCHANGED <<ledger, clock, bank, runs, confirmed>>

\* key = make_idempotency_key(...); is_already_processed(key) is true:
\* log, count as succeeded, continue.
SkipProcessed(p) ==
    /\ proc[p].pc = "loop"
    /\ proc[p].idx <= Len(proc[p].employees)
    /\ Emp(p).amount_cents > 0
    /\ LET key == make_idempotency_key(Emp(p).name, proc[p].period, Emp(p).amount_cents)
       IN  /\ is_already_processed(ledger, key)
           /\ proc' = [proc EXCEPT ![p].logs = Log(p, "INFO", "bereits verarbeitet"),
                                   ![p].transfer_ok = Append(@, Emp(p).name),
                                   ![p].key = key,
                                   ![p].startStatus = StatusOf(ledger, key),
                                   ![p].idx = @ + 1]
    /\ UNCHANGED <<ledger, clock, bank, runs, confirmed>>

\* is_already_processed(key) is false: the flow goes on to record_pending.
NotProcessed(p) ==
    /\ proc[p].pc = "loop"
    /\ proc[p].idx <= Len(proc[p].employees)
    /\ Emp(p).amount_cents > 0
    /\ LET key == make_idempotency_key(Emp(p).name, proc[p].period, Emp(p).amount_cents)
       IN  /\ ~is_already_processed(ledger, key)
           /\ proc' = [proc EXCEPT ![p].key = key,
                                   ![p].startStatus = StatusOf(ledger, key),
                                   ![p].pc = "pending"]
    /\ UNCHANGED <<ledger, clock, bank, runs, confirmed>>

\* record_pending(key, emp.name, period, emp.amount_cents), then the
\* "Ueberweisung: ..." log line; create_transfer is entered.
RecordPending(p) ==
    /\ proc[p].pc = "pending"
    /\ ledger' = record_pending(ledger, proc[p].key, Emp(p).name, proc[p].period,
                                Emp(p).amount_cents, clock)
    /\ clock' = clock + 1
    /\ proc' = [proc EXCEPT ![p].logs = Log(p, "INFO", "Ueberweisung"),
                            ![p].pc = "verify",
                            ![p].attempt = 1,
                            ![p].vop_token = "",
                            ![p].sca_token = "",
                            ![p].resp = NoResp,
                            ![p].result = NoResult]
    /\ UNCHANGED <<bank, runs, confirmed>>

(* ------------------------------------------------------------------ *)
(* The bank as the client sees it                                     *)
(* ------------------------------------------------------------------ *)

\* An HTTP response; status 0 with kind "timeout" or "connerr" is a request
\* that raised requests.Timeout or requests.ConnectionError instead.
Resp(status, kind, body, id, sca_session_token) ==
    [status |-> status, kind |-> kind, body |-> body, id |-> id,
     sca_session_token |-> sca_session_token]

\* The answers to POST /sepa/verify_payee.
VerifyResponses ==
    { Resp(200, "ok", <<>>, None, ""),
      Resp(200, "malformed", <<>>, None, ""),
      Resp(400, "error", <<"invalid", "iban">>, None, ""),
      Resp(429, "error", <<>>, None, ""),
      Resp(503, "error", <<>>, None, ""),
      Resp(0, "timeout", <<>>, None, ""),
      Resp(0, "connerr", <<>>, None, "") }

\* The answers to POST /sepa/transfers that create nothing at the bank.
RefusingResponses ==
    { Resp(428, "challenge", <<>>, None, "sca1"),
      Resp(428, "challenge", <<>>, None, ""),
      Resp(422, "validation", <<"invalid", "iban">>, None, ""),
      Resp(422, "validation", <<"beneficiary", "Already", "blocked">>, None, ""),
      Resp(400, "error", <<"bad", "request">>, None, ""),
      Resp(429, "error", <<>>, None, ""),
      Resp(503, "error", <<>>, None, ""),
      Resp(0, "timeout", <<>>, None, ""),
      Resp(0, "connerr", <<>>, None, "") }

\* The transfers the bank holds under a request's X-Qonto-Idempotency-Key.
Existing(bk, req) == {t \in bk : req.idem # <<>> /\ t.idem = req.idem}

\* What the bank may do with a transfer request: the response, and whether
\* a transfer is created.  The bank de-duplicates by the idempotency header:
\* under a token it already holds it creates nothing and replays the
\* transfer or reports the conflict; a created transfer's response may be
\* lost on the way back (timeout).
BankOutcomes(bk, req) ==
    LET ex    == Existing(bk, req)
        newid == <<Cardinality(bk) + 1>>
    IN  IF ex = {}
        THEN {[resp |-> r, create |-> FALSE] : r \in RefusingResponses}
             \cup {[resp |-> Resp(201, "created", <<>>, newid, ""), create |-> TRUE],
                   [resp |-> Resp(0, "timeout", <<>>, newid, ""), create |-> TRUE]}
        ELSE {[resp |-> r, create |-> FALSE] : r \in RefusingResponses}
             \cup {[resp |-> Resp(200, "replayed", <<>>, t.id, ""), create |-> FALSE] : t \in ex}
             \cup {[resp |-> Resp(422, "conflict", <<"Idempotency", "key", "reused">>, None, ""),
                    create |-> FALSE]}

(* ------------------------------------------------------------------ *)
(* QontoClient (qonto_client.py)                                      *)
(* ------------------------------------------------------------------ *)

\* retries: int = 3
Retries == 3

\* Headers built without the idempotency key.
IdemHeader_Dropped(idempotency_key) == <<>>

\* _oauth_headers: the X-Qonto-Idempotency-Key header, absent (<<>>) when no
\* key is passed.
IdemHeader(idempotency_key) == idempotency_key

\* _request, one pass of the attempt loop: "retry" (sleep, next attempt),
\* "return" (return resp) or "raise" (the ConnectionError after the loop).
RequestStep(r, attempt) ==
    IF r.kind \in {"timeout", "connerr"}
    THEN IF attempt < Retries THEN "retry" ELSE "raise"
    ELSE IF (r.status = 429 \/ r.status >= 500) /\ attempt < Retries
         THEN "retry"
         ELSE "return"

\* str.lower() on the words of a response body.
LowerWord(w) ==
    CASE w = "Already" -> "already"
      [] w = "Idempotency" -> "idempotency"
      [] OTHER -> w

\* w in str(detail).lower(), a body being the sequence of its words.
InBody(w, body) == \E i \in 1..Len(body) : LowerWord(body[i]) = w

TransferResult(success, transfer_id, error, status_code) ==
    [success |-> success, transfer_id |-> transfer_id, error |-> error,
     status_code |-> status_code]

\* _parse_transfer_response
_parse_transfer_response(r) ==
    IF r.status \in {200, 201}
    THEN TransferResult(TRUE, r.id, "", r.status)
    ELSE IF r.status = 422
         THEN IF InBody("idempotency", r.body) \/ InBody("already", r.body)
              THEN TransferResult(TRUE, None, "Bereits verarbeitet (Idempotenz)", 422)
              ELSE TransferResult(FALSE, None, "validation", 422)
         ELSE TransferResult(FALSE, None, "error", r.status)

\* f"{amount_cents / 100:.2f}": euros and two-digit cents.
AmountStr(amount_cents) == <<amount_cents \div 100, amount_cents % 100>>

\* The JSON body of the transfer request, built once in create_transfer.
Payload(p) ==
    [vop_proof_token |-> proc[p].vop_token,
     name            |-> Emp(p).name,
     iban            |-> Emp(p).iban,
     reference       |-> proc[p].period,
     amount          |-> AmountStr(Emp(p).amount_cents)]

\* The first POST /sepa/transfers of create_transfer.
FirstRequest(p) ==
    [idem    |-> IdemHeader(proc[p].key),
     payload |-> Payload(p),
     sca     |-> ""]

\* A resubmission that passes no idempotency_key.
SecondRequest_NoKey(p) ==
    [idem    |-> <<>>,
     payload |-> Payload(p),
     sca     |-> proc[p].sca_token]

\* A resubmission with the first request's headers only.
SecondRequest_NoSca(p) ==
    [idem    |-> IdemHeader(proc[p].key),
     payload |-> Payload(p),
     sca     |-> ""]

\* The POST /sepa/transfers after the approval, X-Qonto-Sca-Session-Token set.
SecondRequest(p) ==
    [idem    |-> IdemHeader(proc[p].key),
     payload |-> Payload(p),
     sca     |-> proc[p].sca_token]

\* The network calls of the run so far: (employee index, kind of call), kind
\* "post" for a POST /sepa/transfers and "call" for any call at all
\* (token refresh, payee verification, transfer, approval poll).
Net(p, kinds) ==
    proc[p].netLog \cup {<<proc[p].idx, IF k = "post" THEN "post" ELSE "call">> : k \in kinds}

\* create_transfer returned `res`: back in payroll_process at line 188.
Returned(p, r, res, kinds) ==
    [proc EXCEPT ![p].pc = "record", ![p].resp = r, ![p].result = res,
                 ![p].netLog = Net(p, kinds)]

\* _verify_payee, one attempt of its _request.  Every failure (credential,
\* connection, status, body) is caught in create_transfer and becomes a
\* failed TransferResult.
VerifyAttempt(p) ==
    /\ proc[p].pc = "verify"
    /\ \E r \in VerifyResponses :
         LET step == RequestStep(r, proc[p].attempt)
             fail == TransferResult(FALSE, None, "VOP fehlgeschlagen", 0)
         IN  proc' =
               CASE step = "retry" ->
                      [proc EXCEPT ![p].attempt = @ + 1,
                                   ![p].netLog = Net(p, {"token", "verify"})]
                 [] step = "raise" -> Returned(p, r, fail, {"token", "verify"})
                 [] step = "return" /\ (r.status # 200 \/ r.kind = "malformed") ->
                      Returned(p, r, fail, {"token", "verify"})
                 [] OTHER ->
                      [proc EXCEPT ![p].pc = "post1",
                                   ![p].attempt = 1,
                                   ![p].vop_token = "vop1",
                                   ![p].netLog = Net(p, {"token", "verify"})]
    /\ UNCHANGED <<ledger, clock, bank, runs, confirmed>>

\* get_valid_token raises in _verify_payee's _request: caught by
\* `except Exception` in create_transfer.
VerifyAuthError(p) ==
    /\ proc[p].pc = "verify"
    /\ proc[p].attempt = 1
    /\ proc' = Returned(p, NoResp, TransferResult(FALSE, None, "VOP fehlgeschlagen", 0),
                        {"token"})
    /\ UNCHANGED <<ledger, clock, bank, runs, confirmed>>

\* One attempt of a POST /sepa/transfers (`req`), the bank answering `o`.
PostEffect(p, req, o) ==
    LET r    == o.resp
        step == RequestStep(r, proc[p].attempt)
        kinds == {"token", "post"}
    IN  /\ bank' = IF o.create
                   THEN bank \cup {[id |-> r.id, idem |-> req.idem, key |-> proc[p].key,
                                    payload |-> req.payload, run |-> runs]}
                   ELSE bank
        /\ confirmed' = IF r.kind \in {"created", "replayed", "conflict"}
                        THEN confirmed \cup {proc[p].key}
                        ELSE confirmed
        /\ proc' =
             CASE step = "retry" ->
                    [proc EXCEPT ![p].attempt = @ + 1, ![p].netLog = Net(p, kinds)]
               [] step = "raise" ->
                    Returned(p, r, TransferResult(FALSE, None, "nicht erreichbar", 0), kinds)
               [] step = "return" /\ r.status = 428 /\ proc[p].pc = "post1" ->
                    IF r.sca_session_token = ""
                    THEN Returned(p, r, TransferResult(FALSE, None, "kein sca_session_token", 428),
                                  kinds)
                    ELSE [proc EXCEPT ![p].pc = "poll",
                                      ![p].sca_token = r.sca_session_token,
                                      ![p].resp = r,
                                      ![p].netLog = Net(p, kinds)]
               [] OTHER -> Returned(p, r, _parse_transfer_response(r), kinds)

\* create_transfer, lines 271-280: the first submission.
PostAttempt(p) ==
    /\ proc[p].pc = "post1"
    /\ \E o \in BankOutcomes(bank, FirstRequest(p)) : PostEffect(p, FirstRequest(p), o)
    /\ UNCHANGED <<ledger, clock, runs>>

\* create_transfer, lines 298-307: the resubmission after the approval.
RepostAttempt(p) ==
    /\ proc[p].pc = "post2"
    /\ \E o \in BankOutcomes(bank, SecondRequest(p)) : PostEffect(p, SecondRequest(p), o)
    /\ UNCHANGED <<ledger, clock, runs>>

\* _poll_sca_session, one poll or the deadline: "allow" returns True, a
\* denial or the deadline returns False, anything else keeps polling.
Poll(p) ==
    /\ proc[p].pc = "poll"
    /\ \E verdict \in {"allow", "deny", "timeout", "waiting"} :
         proc' =
           CASE verdict = "allow" ->
                  [proc EXCEPT ![p].pc = "post2", ![p].attempt = 1,
                               ![p].netLog = Net(p, {"token", "poll"})]
             [] verdict = "waiting" ->
                  [proc EXCEPT ![p].netLog = Net(p, {"token", "poll"})]
             [] OTHER ->
                  Returned(p, proc[p].resp,
                           TransferResult(FALSE, None, "SCA verweigert oder Timeout", 428),
                           {"token", "poll"})
    /\ UNCHANGED <<ledger, clock, bank, runs, confirmed>>

\* get_valid_token raises QontoOAuthError inside a transfer POST or a poll:
\* nothing in create_transfer or payroll_process catches it there.
AuthErrorRaised(p) ==
    /\ \/ proc[p].pc \in {"post1", "post2"} /\ proc[p].attempt = 1
       \/ proc[p].pc = "poll"
    /\ proc' = [proc EXCEPT ![p] = [IdleProc EXCEPT !.pc = "raised"]]
    /\ UNCHANGED <<ledger, clock, bank, runs, confirmed>>

\* A loop that stops at the first failed employee.
NextEmployee_StopOnFailure(pr) ==
    IF pr.result.success
    THEN [pr EXCEPT !.idx = @ + 1, !.pc = "loop", !.resp = NoResp, !.result = NoResult,
                    !.script = <<>>, !.last = NoRun, !.note = <<>>, !.wait = "none"]
    ELSE [pr EXCEPT !.pc = "done", !.resp = NoResp, !.result = NoResult,
                    !.script = <<>>, !.last = NoRun, !.note = <<>>, !.wait = "none"]

\* The end of the for-loop body: on to the next employee, whatever the
\* outcome; the locals of the finished create_transfer call are gone.
NextEmployee(pr) ==
    [pr EXCEPT !.idx = @ + 1, !.pc = "loop", !.resp = NoResp, !.result = NoResult,
               !.script = <<>>, !.last = NoRun, !.note = <<>>, !.wait = "none"]

\* payroll_process, lines 188-195: record the outcome, next employee.
Finish(p) ==
    /\ proc[p].pc = "record"
    /\ IF proc[p].result.success
       THEN /\ ledger' = record_success(ledger, proc[p].key, proc[p].result.transfer_id, clock)
            /\ proc' = [proc EXCEPT ![p] =
                          NextEmployee([@ EXCEPT !.logs = Log(p, "INFO", "Ueberweisung OK"),
                                                 !.transfer_ok = Append(@, Emp(p).name)])]
       ELSE /\ ledger' = record_failure(ledger, proc[p].key, clock)
            /\ proc' = [proc EXCEPT ![p] =
                          NextEmployee([@ EXCEPT !.logs = Log(p, "ERROR", "fehlgeschlagen"),
                                                 !.transfer_fail = Append(@, Emp(p).name)])]
    /\ clock' = clock + 1
    /\ UNCHANGED <<bank, runs, confirmed>>

\* The process is killed while inside payroll_process; the ledger file
\* and the bank keep what they hold.
Crash(p) ==
    /\ proc[p].pc \in {"loop", "pending", "verify", "post1", "poll", "post2", "record"}
    /\ proc' = [proc EXCEPT ![p] = [IdleProc EXCEPT !.pc = "dead"]]
    /\ UNCHANGED <<ledger, clock, bank, runs, confirmed>>

(* ------------------------------------------------------------------ *)
(* The request layer with its waits (qonto_client.py, _request)       *)
(* ------------------------------------------------------------------ *)

\* _TIMEOUT = 30: seconds after which requests.request raises Timeout.
_TIMEOUT == 30

IsDigit(c) == c \in {"0", "1", "2", "3", "4", "5", "6", "7", "8", "9"}

DigitVal(c) == CHOOSE d \in 0..9 : DigitChar(d) = c

RECURSIVE DigitsVal(_)
DigitsVal(s) ==
    IF s = <<>> THEN 0
    ELSE 10 * DigitsVal(SubSeq(s, 1, Len(s) - 1)) + DigitVal(s[Len(s)])

\* int(<str>): the number a string of digits denotes; anything else raises
\* ValueError (ok = FALSE).
ParseInt(s) ==
    IF s # <<>> /\ \A i \in 1..Len(s) : IsDigit(s[i])
    THEN [ok |-> TRUE, value |-> DigitsVal(s)]
    ELSE [ok |-> FALSE, value |-> 0]

\* 2 ** attempt
RECURSIVE Pow2(_)
Pow2(n) == IF n = 0 THEN 1 ELSE 2 * Pow2(n - 1)

\* A wait that does not grow with the attempt.
RetryWait_Fixed(r, attempt) ==
    IF r.retry_after = <<>>
    THEN [ok |-> TRUE, value |-> 2]
    ELSE ParseInt(r.retry_after)

\* int(resp.headers.get("Retry-After", 2 ** attempt))
RetryWait(r, attempt) ==
    IF r.retry_after = <<>>
    THEN [ok |-> TRUE, value |-> Pow2(attempt)]
    ELSE ParseInt(r.retry_after)

\* A response with its Retry-After header (<<>>: the header is absent).
Hdr(r, retry_after) ==
    [status |-> r.status, kind |-> r.kind, body |-> r.body, id |-> r.id,
     sca_session_token |-> r.sca_session_token, retry_after |-> retry_after]

\* What a _request call came to: "return" (resp returned), "ConnectionError"
\* (raised after the loop) or "ValueError" (raised by int() on the header);
\* the attempts made, the sleeps taken in order and the seconds spent.
Run(outcome, resp, attempts, waits, elapsed) ==
    [outcome |-> outcome, resp |-> resp, attempts |-> attempts, waits |-> waits,
     elapsed |-> elapsed]

\* The attempt loop of _request, `script` being what requests.request gives
\* to the successive attempts.
RECURSIVE RequestLoop(_, _, _, _)
RequestLoop(script, attempt, waits, elapsed) ==
    IF attempt > Retries
    THEN Run("ConnectionError", NoResp, Retries, waits, elapsed)
    ELSE LET r == script[attempt]
         IN  IF r.kind \in {"timeout", "connerr"}
             THEN LET spent == IF r.kind = "timeout" THEN elapsed + _TIMEOUT ELSE elapsed
                  IN  IF attempt < Retries
                      THEN RequestLoop(script, attempt + 1, Append(waits, Pow2(attempt)),
                                       spent + Pow2(attempt))
                      ELSE RequestLoop(script, attempt + 1, waits, spent)
             ELSE IF r.status = 429 \/ r.status >= 500
                  THEN LET wait == RetryWait(r, attempt)
                       IN  IF ~wait.ok
                           THEN Run("ValueError", r, attempt, waits, elapsed)
                           ELSE IF attempt < Retries
                                THEN RequestLoop(script, attempt + 1,
                                                 Append(waits, wait.value),
                                                 elapsed + wait.value)
                                ELSE Run("return", r, attempt, waits, elapsed)
                  ELSE Run("return", r, attempt, waits, elapsed)

\* _request(...), retries = 3.
_request(script) == RequestLoop(script, 1, <<>>, 0)

\* The outcomes after which _request tries again.
Transient(r) == r.kind \in {"timeout", "connerr"} \/ r.status = 429 \/ r.status >= 500

\* The answers the network may give to the attempts of one call: zero to
\* three transient outcomes from T, then one of F; after three transient
\* outcomes, `fourth` is what a further attempt would be given.
Scripts(T, F, fourth) ==
    {<<f>> : f \in F}
      \cup {<<t1, f>> : t1 \in T, f \in F}
      \cup {<<t1, t2, f>> : t1 \in T, t2 \in T, f \in F}
      \cup {<<t1, t2, t3, fourth>> : t1 \in T, t2 \in T, t3 \in T}

(* ------------------------------------------------------------------ *)
(* create_transfer over the request layer, with the clock             *)
(* ------------------------------------------------------------------ *)

\* time.time() when _poll_sca_session is entered (seconds since the epoch).
Epoch == 1000

\* timeout_seconds: int = 300
timeout_seconds == 300

\* time.sleep(2) between two polls.
PollSleep == 2

\* if now - last_log_at >= 10: the progress line.
LogEvery == 10

ServerError == Resp(503, "error", <<>>, None, "")

\* The transient outcomes of an attempt: 503 without a Retry-After header,
\* with "Retry-After: 1", with an HTTP-date in it; 429; a timeout; a
\* connection error.
Transients ==
    { Hdr(ServerError, <<>>),
      Hdr(ServerError, <<"1">>),
      Hdr(ServerError, <<"W", "e", "d">>),
      Hdr(Resp(429, "error", <<>>, None, ""), <<>>),
      Hdr(Resp(0, "timeout", <<>>, None, ""), <<>>),
      Hdr(Resp(0, "connerr", <<>>, None, ""), <<>>) }

\* The verdicts of POST /sepa/verify_payee (match_result).
Verdicts ==
    {"MATCH_RESULT_MATCH", "MATCH_RESULT_CLOSE_MATCH", "MATCH_RESULT_NO_MATCH",
     "MATCH_RESULT_NOT_POSSIBLE"}

\* The final answers to POST /sepa/verify_payee: 200 with a verdict and the
\* proof token, 200 with a verdict and no proof token, 400.
VerifyFinals ==
    {Hdr(Resp(200, "ok", <<v>>, None, ""), <<>>) : v \in Verdicts}
      \cup { Hdr(Resp(200, "malformed", <<"MATCH_RESULT_NOT_POSSIBLE">>, None, ""), <<>>),
             Hdr(Resp(400, "error", <<"invalid", "iban">>, None, ""), <<>>) }

\* The final answers to POST /sepa/transfers.
PostFinals ==
    { Hdr(Resp(201, "created", <<>>, <<1>>, ""), <<>>),
      Hdr(Resp(428, "challenge", <<>>, None, "sca1"), <<>>),
      Hdr(Resp(428, "challenge", <<>>, None, ""), <<>>),
      Hdr(Resp(422, "validation", <<"invalid", "iban">>, None, ""), <<>>),
      Hdr(Resp(400, "error", <<"bad", "request">>, None, ""), <<>>) }

\* The transient outcomes of a poll.
PollTransients ==
    { Hdr(ServerError, <<>>),
      Hdr(ServerError, <<"W", "e", "d">>),
      Hdr(Resp(0, "timeout", <<>>, None, ""), <<>>),
      Hdr(Resp(0, "connerr", <<>>, None, ""), <<>>) }

\* GET /sca_sessions/{token}: 200 with a result, or another status.
Session(result) == Hdr(Resp(200, "session", <<result>>, None, ""), <<>>)

PollFinals ==
    {Session(x) : x \in {"allow", "deny", "denied", "rejected", "cancel", "waiting"}}
      \cup { Hdr(Resp(404, "error", <<>>, None, ""), <<>>),
             Hdr(Resp(425, "error", <<>>, None, ""), <<>>),
             Hdr(Resp(400, "error", <<>>, None, ""), <<>>) }

VerifyScripts == Scripts(Transients, VerifyFinals, Hdr(Resp(200, "ok", <<"MATCH_RESULT_MATCH">>, None, ""), <<>>))

PostScripts == Scripts(Transients, PostFinals, Hdr(Resp(201, "created", <<>>, <<1>>, ""), <<>>))

\* What the _request of one poll can come to.
PollRuns == {_request(s) : s \in Scripts(PollTransients, PollFinals, Session("allow"))}

\* create_transfer returned `res` after the call `run` of script `s`.
ReturnedFrom(p, s, run, res, kinds) ==
    [Returned(p, run.resp, res, kinds) EXCEPT ![p].script = s, ![p].last = run,
                                              ![p].now = 0, ![p].deadline = 0,
                                              ![p].last_log_at = 0]

\* An exception nothing in create_transfer or payroll_process catches.
Escaped(p, s, run) ==
    [proc EXCEPT ![p] = [IdleProc EXCEPT !.pc = "raised", !.script = s, !.last = run,
                                         !.key = proc[p].key]]

\* A verification that lets the transfer through on a full match only.
VerifyPassed_MatchOnly(run) ==
    /\ run.outcome = "return"
    /\ run.resp.status = 200
    /\ run.resp.kind # "malformed"
    /\ run.resp.body = <<"MATCH_RESULT_MATCH">>

\* _verify_payee returns the proof token: the call returned a response, its
\* status is 200 and data["proof_token"]["token"] exists; the verdict is
\* logged only.
VerifyPassed(run) ==
    /\ run.outcome = "return"
    /\ run.resp.status = 200
    /\ run.resp.kind # "malformed"

\* create_transfer, lines 253-257: _verify_payee as one call of _request.
\* Every exception (ValueError, KeyError) becomes a failed TransferResult.
VerifyCall(p) ==
    /\ proc[p].pc = "verify"
    /\ \E s \in VerifyScripts :
         LET run  == _request(s)
             fail == TransferResult(FALSE, None, "VOP fehlgeschlagen", 0)
         IN  proc' =
               IF VerifyPassed(run)
               THEN [proc EXCEPT ![p].pc = "post1",
                                 ![p].vop_token = "vop1",
                                 ![p].script = s,
                                 ![p].last = run,
                                 ![p].netLog = Net(p, {"token", "verify"})]
               ELSE ReturnedFrom(p, s, run, fail, {"token", "verify"})
    /\ UNCHANGED <<ledger, clock, bank, runs, confirmed>>

\* One POST /sepa/transfers call (`req`) that the network answers by `s`.
CallEffect(p, req, s) ==
    LET run   == _request(s)
        r     == run.resp
        kinds == {"token", "post"}
    IN  /\ bank' = IF run.outcome = "return" /\ r.kind = "created"
                   THEN bank \cup {[id |-> r.id, idem |-> req.idem, key |-> proc[p].key,
                                    payload |-> req.payload, run |-> runs]}
                   ELSE bank
        /\ confirmed' = IF run.outcome = "return" /\ r.kind = "created"
                        THEN confirmed \cup {proc[p].key}
                        ELSE confirmed
        /\ proc' =
             CASE run.outcome = "ValueError" -> Escaped(p, s, run)
               [] run.outcome = "ConnectionError" ->
                    ReturnedFrom(p, s, run, TransferResult(FALSE, None, "nicht erreichbar", 0),
                                 kinds)
               [] run.outcome = "return" /\ r.status = 428 /\ proc[p].pc = "post1" ->
                    IF r.sca_session_token = ""
                    THEN ReturnedFrom(p, s, run,
                                      TransferResult(FALSE, None, "kein sca_session_token", 428),
                                      kinds)
                    ELSE [proc EXCEPT ![p].pc = "poll",
                                      ![p].sca_token = r.sca_session_token,
                                      ![p].resp = r,
                                      ![p].script = s,
                                      ![p].last = run,
                                      ![p].now = Epoch,
                                      ![p].deadline = Epoch + timeout_seconds,
                                      ![p].last_log_at = 0,
                                      ![p].netLog = Net(p, kinds)]
               [] OTHER -> ReturnedFrom(p, s, run, _parse_transfer_response(r), kinds)

\* create_transfer, lines 271-296.
PostCall(p) ==
    /\ proc[p].pc = "post1"
    /\ \E s \in PostScripts : CallEffect(p, FirstRequest(p), s)
    /\ UNCHANGED <<ledger, clock, runs>>

\* create_transfer, lines 298-309.
RepostCall(p) ==
    /\ proc[p].pc = "post2"
    /\ \E s \in PostScripts : CallEffect(p, SecondRequest(p), s)
    /\ UNCHANGED <<ledger, clock, runs>>

\* A progress line on every pass of the loop.
LogsNow_EveryPass(now, last_log_at) == TRUE

\* if now - last_log_at >= 10
LogsNow(now, last_log_at) == now - last_log_at >= LogEvery

\* _poll_sca_session, one pass of the while loop: the progress line when
\* 10 s have passed since the last one, the poll, and then the return or
\* the sleep.  `note` is the last line the wait in progress gave to
\* log_callback; `last` is the poll that ended the wait.  `wait` is what the
\* call returned: "allow" (True, the answer came before the deadline), "late"
\* (True, the answer came at or after the deadline), "deny" (False).
PollIteration(p) ==
    /\ proc[p].pc = "poll"
    /\ proc[p].now < proc[p].deadline
    /\ \E run \in PollRuns :
         LET now      == proc[p].now
             logs_now == LogsNow(now, proc[p].last_log_at)
             note     == IF logs_now
                         THEN <<"INFO", "Warte auf Genehmigung", proc[p].deadline - now>>
                         ELSE proc[p].note
             logged   == IF logs_now THEN now ELSE proc[p].last_log_at
             r        == run.resp
             result   == IF run.outcome = "return" /\ r.status = 200 THEN r.body[1] ELSE ""
             fail     == TransferResult(FALSE, None, "SCA verweigert oder Timeout", 428)
             kinds    == {"token", "poll"}
         IN  proc' =
               CASE run.outcome = "ValueError" -> Escaped(p, <<>>, run)
                 [] result = "allow" ->
                      [proc EXCEPT ![p].pc = "post2",
                                   ![p].script = <<>>,
                                   ![p].last = run,
                                   ![p].note = <<>>,
                                   ![p].wait = IF now + run.elapsed < proc[p].deadline
                                               THEN "allow" ELSE "late",
                                   ![p].now = 0, ![p].deadline = 0, ![p].last_log_at = 0,
                                   ![p].netLog = Net(p, kinds)]
                 [] result \in {"deny", "denied", "rejected", "cancel"} ->
                      [ReturnedFrom(p, <<>>, run, fail, kinds)
                         EXCEPT ![p].resp = proc[p].resp,
                                ![p].note = <<"WARNING", "SCA-Freigabe abgelehnt", 0>>,
                                ![p].wait = "deny"]
                 [] OTHER ->
                      [proc EXCEPT ![p].now = now + run.elapsed + PollSleep,
                                   ![p].last_log_at = logged,
                                   ![p].note = note,
                                   ![p].script = <<>>,
                                   ![p].last = NoRun,
                                   ![p].netLog = Net(p, kinds)]
    /\ UNCHANGED <<ledger, clock, bank, runs, confirmed>>

\* _poll_sca_session, lines 226-228: the loop is left at the deadline.
PollDeadline(p) ==
    /\ proc[p].pc = "poll"
    /\ proc[p].now >= proc[p].deadline
    /\ proc' = [ReturnedFrom(p, <<>>, proc[p].last,
                             TransferResult(FALSE, None, "SCA verweigert oder Timeout", 428), {})
                  EXCEPT ![p].resp = proc[p].resp,
                         ![p].note = <<"WARNING", "SCA-Timeout", 0>>,
                         ![p].wait = "timeout"]
    /\ UNCHANGED <<ledger, clock, bank, runs, confirmed>>

(* ------------------------------------------------------------------ *)
(* Page texts: name matching and amount extraction (pdf_processor.py) *)
(* ------------------------------------------------------------------ *)

\* text[i:].startswith(w), positions counted from 1.
StartsWith(s, i, w) ==
    /\ i + Len(w) - 1 <= Len(s)
    /\ SubSeq(s, i, i + Len(w) - 1) = w

\* w in s
Contains(w, s) == \E i \in 1..(Len(s) - Len(w) + 1) : StartsWith(s, i, w)

\* str.split(): the white-space delimited tokens.
RECURSIVE Split(_)
Split(s) ==
    LET t == LStrip(s)
        n == IF \E i \in DOMAIN t : IsSpace(t[i])
             THEN (CHOOSE i \in DOMAIN t :
                     IsSpace(t[i]) /\ \A j \in 1..(i - 1) : ~IsSpace(t[j])) - 1
             ELSE Len(t)
    IN  IF t = <<>> THEN <<>>
        ELSE <<SubSeq(t, 1, n)>> \o Split(SubSeq(t, n + 1, Len(t)))

\* A scoring that ranks the first name above the last name.
_score_name_match_FirstOverLast(text, name) ==
    LET text_lower == Lower(text)
        name_lower == Strip(Lower(name))
        parts      == Split(name_lower)
    IN  IF Contains(name_lower, text_lower) THEN 10
        ELSE IF Len(parts) < 2
             THEN (IF Contains(parts[1], text_lower) THEN 10 ELSE 0)
        ELSE IF \A i \in DOMAIN parts : Contains(parts[i], text_lower) THEN 7
        ELSE IF Contains(parts[1], text_lower) THEN 4
        ELSE IF Contains(parts[Len(parts)], text_lower) THEN 2
        ELSE 0

\* _score_name_match, the score in tenths (1.0 is 10, 0.7 is 7, ...).
_score_name_match(text, name) ==
    LET text_lower == Lower(text)
        name_lower == Strip(Lower(name))
        parts      == Split(name_lower)
    IN  IF Contains(name_lower, text_lower) THEN 10
        ELSE IF Len(parts) < 2
             THEN (IF Contains(parts[1], text_lower) THEN 10 ELSE 0)
        ELSE IF \A i \in DOMAIN parts : Contains(parts[i], text_lower) THEN 7
        ELSE IF Contains(parts[Len(parts)], text_lower) THEN 4
        ELSE IF Contains(parts[1], text_lower) THEN 2
        ELSE 0

\* \s* from position i: the first position that holds no white space.
RECURSIVE SkipSpace(_, _)
SkipSpace(s, i) ==
    IF i <= Len(s) /\ IsSpace(s[i]) THEN SkipSpace(s, i + 1) ELSE i

\* _SEP = \s*[:\-=]?\s* from position i: where it ends.  What follows it in
\* every pattern starts with a letter, a currency sign or a digit, so the
\* longest match is the only one that can go on.
MatchSep(s, i) ==
    LET j == SkipSpace(s, i)
        k == IF j <= Len(s) /\ s[j] \in {":", "-", "="} THEN j + 1 ELSE j
    IN  SkipSpace(s, k)

\* _EUR = (?:(?:EUR|€)\s*)? from position i under (?i): where it ends.
MatchEur(s, i) ==
    IF StartsWith(Lower(s), i, <<"e", "u", "r">>) THEN SkipSpace(s, i + 3)
    ELSE IF StartsWith(s, i, <<"€">>) THEN SkipSpace(s, i + 1)
    ELSE i

\* The digits standing in a row from position i.
RECURSIVE DigitRun(_, _)
DigitRun(s, i) ==
    IF i <= Len(s) /\ IsDigit(s[i]) THEN 1 + DigitRun(s, i + 1) ELSE 0

\* (?:\.\d{3})* from position j: where it ends.
RECURSIVE MatchGroups(_, _)
MatchGroups(s, j) ==
    IF j + 3 <= Len(s) /\ s[j] = "." /\ DigitRun(s, j + 1) >= 3
    THEN MatchGroups(s, j + 4)
    ELSE j

\* _AMT = (\d{1,3}(?:\.\d{3})*,\d{2}) at position i: the position after the
\* match, 0 when it does not match there.  One to three digits take every
\* digit of the run, since a '.' or a ',' must follow.
MatchAmt(s, i) ==
    LET n == DigitRun(s, i)
        j == MatchGroups(s, i + n)
    IN  IF n \in 1..3 /\ j + 2 <= Len(s) /\ s[j] = "," /\ DigitRun(s, j + 1) >= 2
        THEN j + 3
        ELSE 0

\* match.group(1) of an _AMT matched at position i.
Group1(s, i) == SubSeq(s, i, MatchAmt(s, i) - 1)

\* \w under re.UNICODE, for the characters of the page texts.
IsWord(c) ==
    \/ IsDigit(c)
    \/ c = "_"
    \/ LowerChar(c) # c
    \/ \E u \in {"A", "B", "C", "D", "E", "F", "G", "H", "I", "J", "K", "L", "M",
                 "N", "O", "P", "Q", "R", "S", "T", "U", "V", "W", "X", "Y", "Z",
                 "Ü"} : LowerChar(u) = c

\* \w* from position i: the number of word characters in a row.
RECURSIVE WordRun(_, _)
WordRun(s, i) ==
    IF i <= Len(s) /\ IsWord(s[i]) THEN 1 + WordRun(s, i + 1) ELSE 0

\* The least and the greatest of a non-empty set of positions.
Least(S) == CHOOSE i \in S : \A j \in S : i <= j

Greatest(S) == CHOOSE i \in S : \A j \in S : i >= j

\* _SEP _EUR _AMT from position i: where the amount starts, 0 when the three
\* do not match there.
AmountAfter(s, i) ==
    LET a == MatchEur(s, MatchSep(s, i))
    IN  IF MatchAmt(s, a) # 0 THEN a ELSE 0

\* The places in the line after the header where the amount of the first
\* pattern may start: after the key word, white space with a line end in it
\* (\s*\n), then on that line ([^\n]*) an amount with neither a digit nor a
\* '.' before it.
HeaderStarts(s, i) ==
    LET w  == SkipSpace(s, i)
        nl == {n \in i..(w - 1) : s[n] = "\n"}
        b  == Greatest(nl) + 1
        e  == IF \E n \in b..Len(s) : s[n] = "\n"
              THEN Least({n \in b..Len(s) : s[n] = "\n"}) - 1
              ELSE Len(s)
    IN  IF nl = {} THEN {}
        ELSE {j \in b..e : /\ MatchAmt(s, j) # 0
                           /\ ~IsDigit(s[j - 1])
                           /\ s[j - 1] # "."}

\* The patterns of _AMOUNT_PATTERNS in their order: the column header with
\* the value on the next line, the labelled fields, and last an amount
\* followed by the currency.
_AMOUNT_PATTERNS ==
    << [kind |-> "header", word |-> <<"a", "u", "s", "z", "a", "h", "l", "u",
                                      "n", "g", "s", "b", "e", "t", "r", "a",
                                      "g">>],
       [kind |-> "label", word |-> <<"a", "u", "s", "z", "a", "h", "l", "u",
                                     "n", "g", "s", "b", "e", "t", "r", "a",
                                     "g">>],
       [kind |-> "label", word |-> <<"n", "e", "t", "t", "o", "l", "o", "h",
                                     "n">>],
       [kind |-> "label", word |-> <<"n", "e", "t", "t", "o", "g", "e", "h",
                                     "a", "l", "t">>],
       [kind |-> "label", word |-> <<"n", "e", "t", "t", "o">>],
       [kind |-> "labelw", word |-> <<"ü", "b", "e", "r", "w", "e", "i", "s",
                                      "u", "n", "g">>],
       [kind |-> "label", word |-> <<"z", "a", "h", "l", "b", "e", "t", "r",
                                     "a", "g">>],
       [kind |-> "label", word |-> <<"b", "e", "t", "r", "a", "g">>],
       [kind |-> "currency", word |-> <<>>] >>

\* Where the amount starts when pattern pat is matched with its key word at
\* position i of s, 0 when it does not match there.  [^\n]* and \w* are
\* greedy: the last amount of the line, the longest run of word characters.
AmountAt(pat, s, i) ==
    LET after == i + Len(pat.word)
    IN  CASE pat.kind = "label" -> AmountAfter(s, after)
          [] pat.kind = "labelw" ->
               LET ok == {z \in 0..WordRun(s, after) : AmountAfter(s, after + z) # 0}
               IN  IF ok = {} THEN 0 ELSE AmountAfter(s, after + Greatest(ok))
          [] pat.kind = "header" ->
               IF HeaderStarts(s, after) = {} THEN 0
               ELSE Greatest(HeaderStarts(s, after))
          [] pat.kind = "currency" ->
               LET e == MatchAmt(s, i)
                   c == SkipSpace(s, e)
               IN  IF e # 0 /\ (StartsWith(s, c, <<"E", "U", "R">>)
                                  \/ StartsWith(s, c, <<"€">>))
                   THEN i ELSE 0

\* pattern.search(text): group(1) of the leftmost match, <<>> for no match.
\* The key words are matched under (?i).
Search(pat, s) ==
    LET at == {i \in 1..Len(s) : /\ StartsWith(Lower(s), i, pat.word)
                                 /\ AmountAt(pat, s, i) # 0}
    IN  IF at = {} THEN <<>> ELSE Group1(s, AmountAt(pat, s, Least(at)))

\* str.replace(".", "")
RECURSIVE WithoutDots(_)
WithoutDots(s) ==
    IF s = <<>> THEN <<>>
    ELSE IF Head(s) = "." THEN WithoutDots(Tail(s))
    ELSE <<Head(s)>> \o WithoutDots(Tail(s))

\* Python integers and the 53-bit significands of its floats go beyond the
\* integers of the checker: such a number is the sequence of its bits, the
\* most significant first, zero the empty sequence.  Arithmetic is done on
\* limbs of LimbBits bits, the most significant first.
LimbBits == 16

LimbBase == 2 ^ LimbBits

\* b without its leading zeros (bits or limbs).
StripZeros(b) ==
    IF \A i \in DOMAIN b : b[i] = 0 THEN <<>>
    ELSE SubSeq(b, Least({i \in DOMAIN b : b[i] # 0}), Len(b))

\* The bits of the limbs l.
ToBits(l) ==
    StripZeros([i \in 1..(LimbBits * Len(l)) |->
                  (l[(i - 1) \div LimbBits + 1]
                     \div 2 ^ (LimbBits - 1 - ((i - 1) % LimbBits))) % 2])

\* The number sixteen bits denote.
LimbOf(b) ==
    b[1] * 32768 + b[2] * 16384 + b[3] * 8192 + b[4] * 4096 + b[5] * 2048
      + b[6] * 1024 + b[7] * 512 + b[8] * 256 + b[9] * 128 + b[10] * 64
      + b[11] * 32 + b[12] * 16 + b[13] * 8 + b[14] * 4 + b[15] * 2 + b[16]

\* The limbs of the bits b.
ToLimbs(b) ==
    LET n   == (Len(b) + LimbBits - 1) \div LimbBits
        pad == [i \in 1..(n * LimbBits - Len(b)) |-> 0] \o b
    IN  [j \in 1..n |-> LimbOf(SubSeq(pad, (j - 1) * LimbBits + 1, j * LimbBits))]

\* The limbs of l * m + c, for small m and c.
RECURSIVE MulAdd(_, _, _)
MulAdd(l, m, c) ==
    IF l = <<>> THEN (IF c = 0 THEN <<>> ELSE <<c>>)
    ELSE LET v == l[Len(l)] * m + c
         IN  MulAdd(SubSeq(l, 1, Len(l) - 1), m, v \div LimbBase) \o <<v % LimbBase>>

\* The limbs of the number a string of decimal digits denotes, read four
\* digits at a time.
RECURSIVE DecLimbs(_, _)
DecLimbs(s, acc) ==
    IF s = <<>> THEN acc
    ELSE LET n == IF Len(s) < 4 THEN Len(s) ELSE 4
         IN  DecLimbs(SubSeq(s, n + 1, Len(s)),
                      MulAdd(acc, 10 ^ n, DigitsVal(SubSeq(s, 1, n))))

\* Long division of the limbs l by the small number d: quotient (limbs,
\* leading zeros kept) and remainder.
RECURSIVE DivSmall(_, _, _)
DivSmall(l, d, rem) ==
    IF l = <<>> THEN [q |-> <<>>, r |-> rem]
    ELSE LET v    == rem * LimbBase + Head(l)
             rest == DivSmall(Tail(l), d, v % d)
         IN  [q |-> <<v \div d>> \o rest.q, r |-> rest.r]

\* The bits of b + 1.
Increment(b) ==
    IF \A i \in DOMAIN b : b[i] = 1
    THEN <<1>> \o [i \in 1..Len(b) |-> 0]
    ELSE LET j == Greatest({i \in DOMAIN b : b[i] = 0})
         IN  [i \in 1..Len(b) |-> IF i < j THEN b[i] ELSE IF i = j THEN 1 ELSE 0]

\* The significand of a binary64 float.
MantBits == 53

\* Zero limbs appended before the division by 100, so that the quotient has
\* more bits than a significand.
GuardLimbs == 4

\* The binary64 float nearest to q * 2^e (sticky: plus a positive amount
\* below one unit of q), ties to the even significand: m * 2^e.
Nearest(q, e, sticky) ==
    IF Len(q) <= MantBits THEN [m |-> q, e |-> e]
    ELSE LET top  == SubSeq(q, 1, MantBits)
             half == q[MantBits + 1] = 1
             rest == sticky \/ \E i \in (MantBits + 2)..Len(q) : q[i] = 1
             up   == half /\ (rest \/ top[MantBits] = 1)
             m    == IF up THEN Increment(top) ELSE top
             e2   == e + Len(q) - MantBits
         IN  IF Len(m) > MantBits
             THEN [m |-> SubSeq(m, 1, MantBits), e |-> e2 + 1]
             ELSE [m |-> m, e |-> e2]

\* float("<digits>.<dd>"): the float nearest to the decimal, whose value is
\* the digits read as one number, divided by 100.
float(int_digits, frac_digits) ==
    LET k == DecLimbs(int_digits \o frac_digits, <<>>)
        d == DivSmall(k \o [i \in 1..GuardLimbs |-> 0], 100, 0)
    IN  Nearest(ToBits(d.q), -(GuardLimbs * LimbBits), d.r # 0)

\* x * 100 in float arithmetic.
Times100(x) == Nearest(ToBits(MulAdd(ToLimbs(x.m), 100, 0)), x.e, FALSE)

\* round(x): the integer nearest to the float x, ties to the even one.
round(x) ==
    IF x.e >= 0 THEN x.m \o [i \in 1..x.e |-> 0]
    ELSE LET f     == -x.e
             pad   == IF Len(x.m) > f THEN x.m
                      ELSE [i \in 1..(f + 1 - Len(x.m)) |-> 0] \o x.m
             whole == SubSeq(pad, 1, Len(pad) - f)
             frac  == SubSeq(pad, Len(pad) - f + 1, Len(pad))
             rest  == \E i \in 2..f : frac[i] = 1
             up    == frac[1] = 1 /\ (rest \/ whole[Len(whole)] = 1)
         IN  StripZeros(IF up THEN Increment(whole) ELSE whole)

\* round(float(amount_str.replace(".", "").replace(",", ".")) * 100) on a
\* string of the _AMT form, in bits.
CentsBits(amount_str) ==
    LET t     == WithoutDots(amount_str)
        comma == CHOOSE i \in DOMAIN t : t[i] = ","
    IN  round(Times100(float(SubSeq(t, 1, comma - 1), SubSeq(t, comma + 1, Len(t)))))

\* The number the bits b denote, for a b within the checker's integers.
NatOf(b) ==
    LET l == ToLimbs(b)
    IN  IF l = <<>> THEN 0
        ELSE IF Len(l) = 1 THEN l[1]
        ELSE l[1] * LimbBase + l[2]

\* _german_amount_to_cents as process_pdf uses it: the cents of a payslip.
_german_amount_to_cents(amount_str) == NatOf(CentsBits(amount_str))

\* A scan that returns the first match whatever its value.
RECURSIVE ScanFrom_FirstMatch(_, _)
ScanFrom_FirstMatch(text, k) ==
    IF k > Len(_AMOUNT_PATTERNS) THEN 0
    ELSE LET match == Search(_AMOUNT_PATTERNS[k], text)
         IN  IF match # <<>>
             THEN _german_amount_to_cents(match)
             ELSE ScanFrom_FirstMatch(text, k + 1)

\* The for-loop of _extract_amount from the k-th pattern on.
RECURSIVE ScanFrom(_, _)
ScanFrom(text, k) ==
    IF k > Len(_AMOUNT_PATTERNS) THEN 0
    ELSE LET match == Search(_AMOUNT_PATTERNS[k], text)
         IN  IF match # <<>> /\ _german_amount_to_cents(match) > 0
             THEN _german_amount_to_cents(match)
             ELSE ScanFrom(text, k + 1)

\* _extract_amount
_extract_amount(text) == ScanFrom(text, 1)

(* ------------------------------------------------------------------ *)
(* process_pdf (pdf_processor.py)                                     *)
(* ------------------------------------------------------------------ *)

\* Integer parts of amounts in the _AMT form: one to three digits, then
\* groups of a dot and three digits; from payslip amounts up to ones whose
\* cents lie beyond 2^31, 2^51 and 2^53.
IntParts ==
    { <<"0">>, <<"7">>, <<"1", "2">>, <<"9", "9", "9">>, <<"1", ".", "0", "0",
        "0">>, <<"7", ".", "6", "3", "3">>, <<"1", "2", ".", "3", "4", "5">>,
      <<"9", "9", "9", ".", "9", "9", "9">>, <<"1", ".", "2", "3", "4", ".",
        "5", "6", "7">>, <<"2", "1", ".", "4", "7", "4", ".", "8", "3", "6">>,
      <<"2", "2", ".", "5", "1", "7", ".", "9", "9", "8", ".", "1", "3", "6",
        ".", "8", "5", "2">>, <<"3", "6", ".", "3", "8", "2", ".", "5", "0",
        "4", ".", "5", "1", "6", ".", "6", "7", "7">>,
      <<"9", "0", ".", "0", "7", "1", ".", "9", "9", "2", ".", "5", "4", "7",
        ".", "4", "0", "9">> }

\* The two digits after the comma.
Fractions == {<<a, b>> : a, b \in {"0", "2", "5", "7", "9"}}

\* The amount strings _german_amount_to_cents is called with.
AmountStrings == {i \o <<",">> \o f : i \in IntParts, f \in Fractions}

\* CentsBits on the amount strings, computed once.
CentsOf == [s \in AmountStrings |-> CentsBits(s)]

\* _german_amount_to_cents(amount_str) called on its own; argument and
\* result are kept.
ParseAmount(p) ==
    /\ proc[p].pc = "idle"
    /\ \E s \in AmountStrings :
         proc' = [proc EXCEPT ![p].cents = [amount_str |-> s, cents |-> CentsOf[s]]]
    /\ UNCHANGED <<ledger, clock, bank, runs, confirmed>>

\* Number of pages of a payroll document.
MaxPages == 2

\* 0.4, the score a page needs to be given to an employee, in tenths.
AcceptScore == 4

\* str.upper() on the letters the model uses.
UpperChar(c) ==
    IF \E u \in {"A", "B", "C", "D", "E", "F", "G", "H", "I", "J", "K", "L", "M",
                 "N", "O", "P", "Q", "R", "S", "T", "U", "V", "W", "X", "Y", "Z",
                 "Ü"} : LowerChar(u) = c /\ u # c
    THEN CHOOSE u \in {"A", "B", "C", "D", "E", "F", "G", "H", "I", "J", "K", "L",
                       "M", "N", "O", "P", "Q", "R", "S", "T", "U", "V", "W", "X",
                       "Y", "Z", "Ü"} : LowerChar(u) = c /\ u # c
    ELSE c

Upper(s) == [i \in 1..Len(s) |-> UpperChar(s[i])]

\* str.replace("-", "")
RECURSIVE WithoutDashes(_)
WithoutDashes(s) ==
    IF s = <<>> THEN <<>>
    ELSE IF Head(s) = "-" THEN WithoutDashes(Tail(s))
    ELSE <<Head(s)>> \o WithoutDashes(Tail(s))

\* _make_filename: YYYYMM_<1st of first name><1st and 2nd of last name>.
_make_filename(name, period) ==
    LET period_compact == WithoutDashes(period)
        parts == Split(Strip(name))
        first == parts[1]
        last  == IF Len(parts) > 1 THEN parts[Len(parts)] ELSE first
    IN  period_compact \o <<"_">>
          \o Upper(SubSeq(first, 1, 1) \o SubSeq(last, 1, IF Len(last) < 2 THEN Len(last) ELSE 2))

\* best_emp.target_dir / f"{_make_filename(...)}.pdf"
OutputPath(emp, period) ==
    [target_dir |-> emp.target_dir,
     name       |-> _make_filename(emp.name, period) \o <<".", "p", "d",
                                                          "f">>]

\* An Employee as parse_csv returns it: the fields process_pdf fills are at
\* their defaults.
ParsedEmployee(name, iban, target_dir) ==
    [name |-> name, iban |-> iban, target_dir |-> target_dir,
     page_index |-> -1, amount_cents |-> 0, pdf_saved |-> FALSE]

NameMichael == <<"M", "i", "c", "h", "a", "e", "l", " ", "R", "i", "c", "h",
                 "t", "e", "r">>

NameAnna == <<"A", "n", "n", "a", " ", "R", "i", "c", "h", "t", "e", "r">>

\* The rosters process_pdf is called with: two employees who share the last
\* name, in either order.
PdfRosters ==
    { <<ParsedEmployee(NameMichael, "DE01", "dirM"), ParsedEmployee(NameAnna, "DE02", "dirA")>>,
      <<ParsedEmployee(NameAnna, "DE02", "dirA"), ParsedEmployee(NameMichael, "DE01", "dirM")>> }

PdfPeriod == <<"2", "0", "2", "6", "-", "0", "2">>

\* What _extract_text returns for a page: payslips with the full name, with
\* the name reversed, with the last or the first name only, a cover sheet,
\* and the empty text of a page that could not be read.
PageTexts ==
    { <<"M", "i", "c", "h", "a", "e", "l", " ", "R", "i", "c", "h", "t", "e",
        "r", "\n", "A", "u", "s", "z", "a", "h", "l", "u", "n", "g", "s", "b",
        "e", "t", "r", "a", "g", ":", " ", "7", ".", "6", "3", "3", ",", "6",
        "3", " ", "E", "U", "R">>,
      <<"R", "i", "c", "h", "t", "e", "r", ",", " ", "M", "i", "c", "h", "a",
        "e", "l", " ", "N", "e", "t", "t", "o", " ", "1", ".", "0", "0", "0",
        ",", "0", "0">>,
      <<"R", "i", "c", "h", "t", "e", "r">>,
      <<"M", "i", "c", "h", "a", "e", "l", " ", "B", "e", "t", "r", "a", "g",
        " ", "0", ",", "0", "0">>,
      <<"D", "e", "c", "k", "b", "l", "a", "t", "t", " ", "1", "2", ",", "5",
        "0", " ", "E", "U", "R">>,
      <<"A", "N", "N", "A", " ", "R", "I", "C", "H", "T", "E", "R", "\n", "A",
        "u", "s", "z", "a", "h", "l", "u", "n", "g", "s", "b", "e", "t", "r",
        "a", "g", "\n", " ", "3", ".", "0", "0", "0", ",", "0", "0", " ", "5",
        "0", "0", ",", "0", "0", " ", "2", ".", "5", "0", "0", ",", "0",
        "0">>,
      <<"A", "n", "n", "a", " ", "R", "i", "c", "h", "t", "e", "r", " ", "N",
        "e", "t", "t", "o", ":", " ", "0", ",", "0", "0", " ", "B", "e", "t",
        "r", "a", "g", ":", " ", "5", ",", "0", "0">>,
      <<"M", "i", "c", "h", "a", "e", "l", " ", "R", "i", "c", "h", "t", "e",
        "r", " ", "B", "e", "t", "r", "a", "g", " ", "1", ",", "0", "0", " ",
        "N", "e", "t", "t", "o", "l", "o", "h", "n", " ", "2", ",", "0",
        "0">>,
      <<>> }

\* The documents: every sequence of at most MaxPages page texts.
Documents == UNION {[1..n -> PageTexts] : n \in 0..MaxPages}

\* _extract_amount and _score_name_match on the page texts and the roster
\* names, computed once.
AmountOf == [text \in PageTexts |-> _extract_amount(text)]

ScoreOf == [text \in PageTexts |-> [name \in {NameMichael, NameAnna} |->
              _score_name_match(text, name)]]

\* A comparison that lets a later employee take the page at an equal score.
Better_OrEqual(score, best_score) == score >= best_score

\* if score > best_score
Better(score, best_score) == score > best_score

\* The for-loop over the roster from the i-th employee on: best_score and
\* best_emp (the employee's place in the roster, 0 for None).
RECURSIVE BestFrom(_, _, _, _)
BestFrom(scores, i, best_score, best_emp) ==
    IF i > Len(scores) THEN [best_score |-> best_score, best_emp |-> best_emp]
    ELSE IF Better(scores[i], best_score)
         THEN BestFrom(scores, i + 1, scores[i], i)
         ELSE BestFrom(scores, i + 1, best_score, best_emp)

\* A threshold test that turns away a page at exactly the threshold.
Unmatched_AtThreshold(best_emp, best_score) ==
    best_emp = 0 \/ best_score <= AcceptScore

\* if best_emp is None or best_score < 0.4
Unmatched(best_emp, best_score) ==
    best_emp = 0 \/ best_score < AcceptScore

\* An assignment that keeps the page an employee already has.
AssignPage_KeepFirst(emp, idx, amount) ==
    IF emp.page_index # -1 THEN emp
    ELSE [emp EXCEPT !.page_index = idx, !.amount_cents = amount]

\* best_emp.page_index = idx; best_emp.amount_cents = amount
AssignPage(emp, idx, amount) ==
    [emp EXCEPT !.page_index = idx, !.amount_cents = amount]

\* How saving a page can end: written, or OSError from open() (the file as
\* it was) or from writer.write() (the file opened, cut short).
WriteOutcomes == {"written", "open_fails", "write_fails"}

\* The files under the output paths after a page was saved to path, or was
\* cut short there.
Written(files, path, page, whole) ==
    {f \in files : f.path # path} \cup {[path |-> path, page |-> page, whole |-> whole]}

\* An OSError that ends process_pdf.
OnOSError_Abort(pd, page, name) ==
    [pd EXCEPT !.errors = Append(@, <<page, name>>),
               !.pc = "returned"]

\* except OSError: result.errors.append(f"Seite {idx + 1} ({name}): {exc}")
OnOSError(pd, page, name) ==
    [pd EXCEPT !.errors = Append(@, <<page, name>>)]

\* process_pdf is entered: the reader opened the document.
OpenPdf(p) ==
    /\ proc[p].pc = "idle"
    /\ proc[p].pdf.pc = "none"
    /\ \E employees \in PdfRosters, pages \in Documents :
         proc' = [proc EXCEPT ![p].pdf =
                    [NoPdf EXCEPT !.pc = "pages",
                                  !.employees = employees,
                                  !.period = PdfPeriod,
                                  !.pages = pages]]
    /\ UNCHANGED <<ledger, clock, bank, runs, confirmed>>

\* PdfReader raises: the error is reported and process_pdf returns.
OpenFails(p) ==
    /\ proc[p].pc = "idle"
    /\ proc[p].pdf.pc = "none"
    /\ \E employees \in PdfRosters :
         proc' = [proc EXCEPT ![p].pdf =
                    [NoPdf EXCEPT !.pc = "returned",
                                  !.employees = employees,
                                  !.period = PdfPeriod,
                                  !.errors = <<<<0, "PDF konnte nicht geoeffnet werden">>>>]]
    /\ UNCHANGED <<ledger, clock, bank, runs, confirmed>>

\* One pass of the for-loop over the pages: text and amount, the best
\* employee, the threshold, the assignment, and the page saved.
ProcessPage(p) ==
    LET pd     == proc[p].pdf
        idx    == pd.idx
        text   == pd.pages[idx + 1]
        amount == AmountOf[text]
        scores == [i \in 1..Len(pd.employees) |-> ScoreOf[text][pd.employees[i].name]]
        best   == BestFrom(scores, 1, 0, 0)
        seen   == [pd EXCEPT !.idx = idx + 1,
                             !.amount = amount,
                             !.best_score = best.best_score,
                             !.best_emp = best.best_emp]
    IN  /\ pd.pc = "pages"
        /\ idx < Len(pd.pages)
        /\ \E out \in WriteOutcomes :
             proc' = [proc EXCEPT ![p].pdf =
               IF Unmatched(best.best_emp, best.best_score)
               THEN [seen EXCEPT !.unmatched_pages = Append(@, idx + 1)]
               ELSE LET emp      == pd.employees[best.best_emp]
                        assigned == [seen EXCEPT !.employees[best.best_emp] =
                                       AssignPage(emp, idx, amount)]
                        path     == OutputPath(emp, pd.period)
                    IN  CASE emp.name \in pd.skip_save -> assigned
                          [] out = "written" ->
                               [assigned EXCEPT
                                  !.files = Written(@, path, idx + 1, TRUE),
                                  !.saved_files = Append(@, path),
                                  !.employees[best.best_emp].pdf_saved = TRUE]
                          [] out = "open_fails" ->
                               OnOSError(assigned, idx + 1, emp.name)
                          [] out = "write_fails" ->
                               OnOSError([assigned EXCEPT
                                            !.files = Written(@, path, idx + 1, FALSE)],
                                         idx + 1, emp.name)]
        /\ UNCHANGED <<ledger, clock, bank, runs, confirmed>>

\* The pages are through: process_pdf returns its result.
PdfReturn(p) ==
    /\ proc[p].pdf.pc = "pages"
    /\ proc[p].pdf.idx >= Len(proc[p].pdf.pages)
    /\ proc' = [proc EXCEPT ![p].pdf.pc = "returned"]
    /\ UNCHANGED <<ledger, clock, bank, runs, confirmed>>

(* ------------------------------------------------------------------ *)
(* The roster: iban_validator.py and csv_parser.py                    *)
(* ------------------------------------------------------------------ *)

\* The letters A to Z in order.
AZ ==
    <<"A", "B", "C", "D", "E", "F", "G", "H", "I", "J", "K", "L", "M", "N",
      "O", "P", "Q", "R", "S", "T", "U", "V", "W", "X", "Y", "Z">>

IsAZ(c) == \E i \in DOMAIN AZ : AZ[i] = c

\* str.replace(" ", "")
WithoutSpaces(s) == SelectSeq(s, LAMBDA c : c # " ")

\* IBAN_LENGTHS for the country codes the rosters use; .get() of any other
\* code is None.
IBAN_LENGTHS ==
    [country \in {<<"D", "E">>, <<"A", "T">>, <<"N", "L">>} |->
       CASE country = <<"D", "E">> -> 22
         [] country = <<"A", "T">> -> 20
         [] country = <<"N", "L">> -> 18]

\* _iban_to_int(iban) % 97: the first four characters moved to the end, a
\* letter read as the two digits of ord(ch) - 55, a digit as itself; the
\* remainder is carried from character to character.
RECURSIVE Mod97(_, _)
Mod97(s, acc) ==
    IF s = <<>> THEN acc
    ELSE IF IsAZ(Head(s))
    THEN Mod97(Tail(s), (acc * 100 + 9 + (CHOOSE i \in DOMAIN AZ : AZ[i] = Head(s))) % 97)
    ELSE Mod97(Tail(s), (acc * 10 + DigitVal(Head(s))) % 97)

\* _mask_iban
_mask_iban(iban) ==
    IF Len(iban) < 8 THEN iban
    ELSE SubSeq(iban, 1, 4) \o [i \in 1..(Len(iban) - 8) |-> "*"]
           \o SubSeq(iban, Len(iban) - 3, Len(iban))

\* ^[A-Z]{2}\d{2}[A-Z0-9]+$
_IBAN_RE(iban) ==
    /\ Len(iban) >= 5
    /\ IsAZ(iban[1]) /\ IsAZ(iban[2])
    /\ IsDigit(iban[3]) /\ IsDigit(iban[4])
    /\ \A i \in 5..Len(iban) : IsAZ(iban[i]) \/ IsDigit(iban[i])

\* validate_iban(raw): valid, masked, error.
validate_iban(raw) ==
    LET iban    == Upper(WithoutSpaces(Strip(raw)))
        country == SubSeq(iban, 1, 2)
        no(error) == [valid |-> FALSE, masked |-> _mask_iban(iban), error |-> error]
    IN  IF Len(iban) < 5 THEN no("IBAN ist zu kurz.")
        ELSE IF \E i \in 1..2 : UpperChar(country[i]) = LowerChar(country[i])
        THEN no("Ungultiger Laendercode.")
        ELSE IF country \notin DOMAIN IBAN_LENGTHS THEN no("Unbekannter Laendercode")
        ELSE IF Len(iban) # IBAN_LENGTHS[country] THEN no("Falsche IBAN-Laenge")
        ELSE IF ~_IBAN_RE(iban) THEN no("IBAN enthaelt ungueltige Zeichen.")
        ELSE IF Mod97(SubSeq(iban, 5, Len(iban)) \o SubSeq(iban, 1, 4), 0) # 1
        THEN no("IBAN-Pruefsumme (MOD-97) ungueltig.")
        ELSE [valid |-> TRUE, masked |-> _mask_iban(iban), error |-> ""]

\* REQUIRED_COLUMNS
REQUIRED_COLUMNS == {<<"n", "a", "m", "e">>, <<"i", "b", "a", "n">>, <<"z",
                       "i", "e", "l", "o", "r", "d", "n", "e", "r">>}

\* Directories target_dir.mkdir(parents=True, exist_ok=True) fails on.
Unwritable == {"/ro"}

\* The for-loop of parse_csv over the rows: a row without a name, with an
\* invalid IBAN, without a directory or with one that cannot be created adds
\* an error and is passed over; any other row adds an Employee.
RECURSIVE ParseRows(_, _, _)
ParseRows(rows, row_num, result) ==
    IF rows = <<>> THEN result
    ELSE LET row      == Head(rows)
             name     == Strip(row.name)
             raw_iban == Upper(WithoutSpaces(Strip(row.iban)))
             raw_dir  == row.zielordner
             err(msg) == [result EXCEPT !.errors = Append(@, <<row_num, name, msg>>)]
         IN  ParseRows(Tail(rows), row_num + 1,
               IF name = <<>> THEN err("Kein Name angegeben.")
               ELSE IF ~validate_iban(raw_iban).valid THEN err("IBAN ungueltig")
               ELSE IF raw_dir = "" THEN err("Kein Zielordner angegeben.")
               ELSE IF raw_dir \in Unwritable
               THEN err("Zielordner konnte nicht erstellt werden")
               ELSE [result EXCEPT !.employees =
                       Append(@, ParsedEmployee(name, raw_iban, raw_dir))])

\* parse_csv(path) on a file: None for a path that does not exist, else the
\* header's field names (None for an empty file) and the rows.  The rows are
\* counted from 2.
parse_csv(file) ==
    LET fail(msg) == [employees |-> <<>>, errors |-> <<<<0, <<>>, msg>>>>]
    IN  IF file = None THEN fail("CSV-Datei nicht gefunden")
        ELSE IF file.fieldnames = None THEN fail("CSV hat keine Kopfzeile.")
        ELSE IF \E c \in REQUIRED_COLUMNS :
                  \A i \in DOMAIN file.fieldnames : Lower(Strip(file.fieldnames[i])) # c
        THEN fail("CSV fehlen Spalten")
        ELSE LET result == ParseRows(file.rows, 2, [employees |-> <<>>, errors |-> <<>>])
             IN  IF result.employees = <<>> /\ result.errors = <<>>
                 THEN fail("CSV enthaelt keine gueltigen Eintraege.")
                 ELSE result

\* A row of a roster file as csv.DictReader yields it.
Row(name, iban, zielordner) == [name |-> name, iban |-> iban, zielordner |-> zielordner]

Header == <<<<"N", "a", "m", "e">>, <<" ", "I", "B", "A", "N">>, <<"z", "i",
              "e", "l", "o", "r", "d", "n", "e", "r">>>>

RowMichael == Row(NameMichael, <<"D", "E", "8", "9", "3", "7", "0", "4", "0",
                                 "0", "4", "4", "0", "5", "3", "2", "0", "1",
                                 "3", "0", "0", "0">>, "dirM")

RowAnna == Row(<<" ", "A", "n", "n", "a", " ", "R", "i", "c", "h", "t", "e",
                 "r", " ">>, <<"d", "e", "0", "2", " ", "1", "2", "0", "3",
                 " ", "0", "0", "0", "0", " ", "0", "0", "0", "0", " ", "2",
                 "0", "2", "0", " ", "5", "1">>, "dirA")

\* The roster files: a good one with two rows and one with a single row; a
\* good row after one with a wrong check sum; rows without a name and
\* without a directory only; a header alone, a header that lacks a column,
\* an empty file and a path that does not exist.
CsvFiles ==
    { [fieldnames |-> Header, rows |-> <<RowMichael, RowAnna>>],
      [fieldnames |-> Header, rows |-> <<RowAnna>>],
      [fieldnames |-> Header,
       rows |-> <<Row(NameMichael, <<"D", "E", "0", "0", "3", "7", "0", "4",
                                     "0", "0", "4", "4", "0", "5", "3", "2",
                                     "0", "1", "3", "0", "0", "0">>, "dirM"),
                                     RowAnna>>],
      [fieldnames |-> Header,
       rows |-> <<Row(<<" ">>, <<"D", "E", "8", "9", "3", "7", "0", "4", "0",
                        "0", "4", "4", "0", "5", "3", "2", "0", "1", "3", "0",
                        "0", "0">>, "dirM"),
                  Row(NameAnna, <<"D", "E", "0", "2", "1", "2", "0", "3", "0",
                                  "0", "0", "0", "0", "0", "0", "0", "2", "0",
                                  "2", "0", "5", "1">>, "")>>],
      [fieldnames |-> Header, rows |-> <<>>],
      [fieldnames |-> <<<<"n", "a", "m", "e">>, <<"i", "b", "a", "n">>>>,
                          rows |-> <<RowMichael>>],
      [fieldnames |-> None, rows |-> <<>>],
      None }

(* ------------------------------------------------------------------ *)
(* payroll_process from its entry to the transfer loop                *)
(* ------------------------------------------------------------------ *)

\* A test of the roster that lets rows with errors pass.
RosterFatal_EmptyOnly(csv_result) == csv_result.employees = <<>>

\* if csv_result.errors: return ...; if not csv_result.employees: return ...
RosterFatal(csv_result) ==
    csv_result.errors # <<>> \/ csv_result.employees = <<>>

\* The page texts of the documents a run is given: a payslip of one
\* employee, a page of the other that states no amount to be paid, and a
\* cover sheet.
RunPageTexts ==
    { <<"A", "n", "n", "a", " ", "R", "i", "c", "h", "t", "e", "r", " ", "N",
        "e", "t", "t", "o", ":", " ", "0", ",", "0", "0", " ", "B", "e", "t",
        "r", "a", "g", ":", " ", "5", ",", "0", "0">>,
      <<"M", "i", "c", "h", "a", "e", "l", " ", "B", "e", "t", "r", "a", "g",
        " ", "0", ",", "0", "0">>,
      <<"D", "e", "c", "k", "b", "l", "a", "t", "t", " ", "1", "2", ",", "5",
        "0", " ", "E", "U", "R">> }

\* Number of pages of the document a run is given.
RunPages == 1

\* The documents of a run; None is a file PdfReader cannot open.
RunDocuments == UNION {[1..n -> RunPageTexts] : n \in 0..RunPages} \cup {None}

\* parse_csv on the roster files, computed once.
ParsedOf == [file \in CsvFiles |-> parse_csv(file)]

\* process_pdf after PdfReader(str(pdf_path)) for the document `pages`.
Opened(employees, period, pages) ==
    IF pages = None
    THEN [NoPdf EXCEPT !.pc = "returned",
                       !.employees = employees,
                       !.period = period,
                       !.errors = <<<<0, "PDF konnte nicht geoeffnet werden">>>>]
    ELSE [NoPdf EXCEPT !.pc = "pages",
                       !.employees = employees,
                       !.period = period,
                       !.pages = pages]

\* payroll_process, lines 114-138: the roster is parsed; a roster with
\* errors or without employees ends the run with that message; otherwise
\* process_pdf is called and opens the document.
EnterRun(p) ==
    /\ proc[p].pc \in {"idle", "done", "raised"}
    /\ runs < MaxRuns
    /\ \E file \in CsvFiles, skip_transfers \in BOOLEAN :
         LET csv_result == ParsedOf[file]
             run == [IdleProc EXCEPT !.csv_result = csv_result,
                                     !.period = PdfPeriod,
                                     !.skip_transfers = skip_transfers]
         IN  IF RosterFatal(csv_result)
             THEN proc' = [proc EXCEPT ![p] =
                             [run EXCEPT !.pc = "done",
                                         !.returned = IF csv_result.errors # <<>>
                                                      THEN "csv_errors"
                                                      ELSE "no_employees"]]
             ELSE \E pages \in RunDocuments :
                    proc' = [proc EXCEPT ![p] =
                      [run EXCEPT
                         !.pc = "pdf",
                         !.logs = << <<"INFO", "CSV", Len(csv_result.employees)>>,
                                     <<"INFO", "PDF-Verarbeitung", <<>>>> >>,
                         !.pdf = Opened(csv_result.employees, PdfPeriod, pages)]]
    /\ runs' = runs + 1
    /\ UNCHANGED <<ledger, clock, bank, confirmed>>

\* How QontoClient() can end: constructed; QontoConfigError for a missing
\* environment variable, for an unreachable bank, a status other than 200
\* or no account with the debit IBAN when the account id is resolved; or
\* an exception of another kind from a body that is not the expected JSON.
ClientOutcomes ==
    {"ok", "missing_env", "unreachable", "http_error", "no_account", "bad_body"}

\* A documents-only mode that is not looked at: the client is constructed
\* and the loop is entered.
OnSkipTransfers_Ignored(run, employees) ==
    [run EXCEPT !.pc = "loop", !.employees = employees, !.idx = 1,
                !.netLog = {<<0, "call">>}]

\* if skip_transfers: the skip is logged and the logs are returned.
OnSkipTransfers(run, employees) ==
    [run EXCEPT !.pc = "done",
                !.logs = Append(@, <<"INFO", "Ueberweisungen uebersprungen", <<>>>>),
                !.returned = "logs"]

\* except QontoConfigError as exc: the error is logged and the logs are
\* returned.
OnConfigError(run, employees) ==
    [run EXCEPT !.pc = "done",
                !.logs = Append(@, <<"ERROR", "Qonto-Konfiguration fehlt",
                                     <<>>>>),
                !.returned = "logs"]

\* payroll_process, lines 139-155: the result of process_pdf is logged;
\* with skip_transfers the logs are returned; otherwise the client is
\* constructed, which asks the bank for the account id unless a variable is
\* missing.
AfterPdf(p) ==
    /\ proc[p].pc = "pdf"
    /\ proc[p].pdf.pc = "returned"
    /\ \E out \in ClientOutcomes :
         LET pd        == proc[p].pdf
             employees == [i \in DOMAIN pd.employees |->
                             Employee(pd.employees[i].name, pd.employees[i].iban,
                                      pd.employees[i].amount_cents)]
             logged    == [proc[p] EXCEPT !.logs =
                             @ \o [i \in DOMAIN pd.saved_files |->
                                     <<"INFO", "PDF gespeichert",
                                       pd.saved_files[i]>>]
                               \o [i \in DOMAIN pd.unmatched_pages |->
                                     <<"WARNING", "kein Mitarbeiter gefunden",
                                       pd.unmatched_pages[i]>>]
                               \o [i \in DOMAIN pd.errors |->
                                     <<"ERROR", "PDF-Fehler", pd.errors[i]>>]]
             asked     == [logged EXCEPT !.netLog = {<<0, "call">>}]
         IN  proc' = [proc EXCEPT ![p] =
               IF proc[p].skip_transfers
               THEN OnSkipTransfers(logged, employees)
               ELSE CASE out = "ok" ->
                           [asked EXCEPT !.pc = "loop", !.employees = employees, !.idx = 1]
                      [] out = "missing_env" -> OnConfigError(logged, employees)
                      [] out = "bad_body" -> [IdleProc EXCEPT !.pc = "raised"]
                      [] OTHER -> OnConfigError(asked, employees)]
    /\ UNCHANGED <<ledger, clock, bank, runs, confirmed>>

(* ------------------------------------------------------------------ *)
(* Specifications                                                     *)
(* ------------------------------------------------------------------ *)

Step(p, inputs) ==
    \/ StartRun(p, inputs)
    \/ Summary(p)
    \/ SkipNoAmount(p)
    \/ SkipProcessed(p)
    \/ NotProcessed(p)
    \/ RecordPending(p)
    \/ VerifyAttempt(p)
    \/ VerifyAuthError(p)
    \/ PostAttempt(p)
    \/ RepostAttempt(p)
    \/ Poll(p)
    \/ AuthErrorRaised(p)
    \/ Finish(p)
    \/ Crash(p)

\* Runs one after another: a single process.
Next == \E p \in SeqProcs : Step(p, Inputs)

Spec == Init /\ [][Next]_vars

\* Two payroll_process invocations at the same time.
NextConc == \E p \in Procs : Step(p, ConcInputs)

SpecConc == Init /\ [][NextConc]_vars

NameAlBar01 == <<"A", "l", "|", "0", "1">>

Period01Bar02 == <<"0", "1", "|", "0", "2">>

\* Rosters and periods with a "|" in them: parse_csv takes any non-empty
\* name, and the period argument is taken as given.  The second roster also
\* has an employee no page gave an amount to; the third pays the employee of
\* the first another amount in the same period.
KeyInputs ==
    { [employees |-> <<Employee(NameAl, "DE01", 7)>>,
       period    |-> Period01Bar02],
      [employees |-> <<Employee(NameBo, "DE02", 0), Employee(NameAlBar01, "DE03", 7)>>,
       period    |-> Period02],
      [employees |-> <<Employee(NameAl, "DE01", 12)>>,
       period    |-> Period01Bar02] }

\* Runs one after another over such rosters and periods.
NextKeys == \E p \in SeqProcs : Step(p, KeyInputs)

SpecKeys == Init /\ [][NextKeys]_vars

\* The (name, period, amount) triples the ledger functions are called with.
LedgerRows ==
    { [name |-> NameAl, period |-> Period01, amount_cents |-> 7],
      [name |-> NameAlPadded, period |-> Period01, amount_cents |-> 7],
      [name |-> NameBo, period |-> Period02, amount_cents |-> 12] }

\* The keys they are called with.
LedgerKeys == {make_idempotency_key(r.name, r.period, r.amount_cents) : r \in LedgerRows}

\* The transfer ids record_success is called with.
TransferIds == {None, <<1>>}

\* record_pending(key, employee_name, period, amount_cents) called by anyone.
CallRecordPending ==
    /\ clock <= MaxCalls
    /\ \E key \in LedgerKeys, r \in LedgerRows :
         ledger' = record_pending(ledger, key, r.name, r.period, r.amount_cents, clock)
    /\ clock' = clock + 1
    /\ UNCHANGED <<bank, proc, runs, confirmed>>

\* record_success(key, transfer_id) called by anyone.
CallRecordSuccess ==
    /\ clock <= MaxCalls
    /\ \E key \in LedgerKeys, transfer_id \in TransferIds :
         ledger' = record_success(ledger, key, transfer_id, clock)
    /\ clock' = clock + 1
    /\ UNCHANGED <<bank, proc, runs, confirmed>>

\* record_failure(key, error) called by anyone.
CallRecordFailure ==
    /\ clock <= MaxCalls
    /\ \E key \in LedgerKeys : ledger' = record_failure(ledger, key, clock)
    /\ clock' = clock + 1
    /\ UNCHANGED <<bank, proc, runs, confirmed>>

\* The periods query_all is called with: none, and those of the rows.
PeriodFilters == {None} \cup {r.period : r \in LedgerRows}

\* query_all(period) called through payroll_list_transfers; the answer is
\* kept as the caller's listing.
CallQueryAll ==
    /\ \E p \in SeqProcs, period \in PeriodFilters :
         proc' = [proc EXCEPT ![p].listing =
                    [period |-> period, rows |-> query_all(ledger, period)]]
    /\ UNCHANGED <<ledger, clock, bank, runs, confirmed>>

\* The ledger module on its own: its functions called in any order.
NextLedger ==
    \/ CallRecordPending
    \/ CallRecordSuccess
    \/ CallRecordFailure
    \/ CallQueryAll

SpecLedger == Init /\ [][NextLedger]_vars

\* process_pdf on its own: one document, page after page.
NextPdf ==
    \E p \in SeqProcs :
      \/ OpenPdf(p)
      \/ OpenFails(p)
      \/ ProcessPage(p)
      \/ PdfReturn(p)

SpecPdf == Init /\ [][NextPdf]_vars

\* payroll_process from its entry on: roster, pages, client, transfers and
\* summary.
RunStep(p) ==
    \/ EnterRun(p)
    \/ ProcessPage(p)
    \/ PdfReturn(p)
    \/ AfterPdf(p)
    \/ Summary(p)
    \/ SkipNoAmount(p)
    \/ SkipProcessed(p)
    \/ NotProcessed(p)
    \/ RecordPending(p)
    \/ VerifyAttempt(p)
    \/ VerifyAuthError(p)
    \/ PostAttempt(p)
    \/ RepostAttempt(p)
    \/ Poll(p)
    \/ AuthErrorRaised(p)
    \/ Finish(p)

NextRun == \E p \in SeqProcs : RunStep(p)

SpecRun == Init /\ [][NextRun]_vars

\* The amount conversion on its own.
NextAmount == \E p \in SeqProcs : ParseAmount(p)

SpecAmount == Init /\ [][NextAmount]_vars

\* The roster of the run that is followed call by call.
ClientInputs ==
    { [employees |-> <<Employee(NameAl, "DE01", 7), Employee(NameBo, "DE02", 12)>>,
       period    |-> Period01] }

\* One run of payroll_process with every _request call and every pass of
\* the approval wait as a step of its own; the stored token is valid.
ClientStep(p) ==
    \/ (runs = 0 /\ StartRun(p, ClientInputs))
    \/ Summary(p)
    \/ NotProcessed(p)
    \/ RecordPending(p)
    \/ VerifyCall(p)
    \/ PostCall(p)
    \/ PollIteration(p)
    \/ PollDeadline(p)
    \/ RepostCall(p)
    \/ Finish(p)

NextClient == \E p \in SeqProcs : ClientStep(p)

SpecClient == Init /\ [][NextClient]_vars

(* ------------------------------------------------------------------ *)
(* Properties                                                         *)
(* ------------------------------------------------------------------ *)

Range(f) == {f[i] : i \in DOMAIN f}

\* The ledger key of the i-th employee of p's run.
KeyAt(p, i) ==
    make_idempotency_key(proc[p].employees[i].name, proc[p].period,
                         proc[p].employees[i].amount_cents)

\* The transfers the bank holds for a ledger key.
TransfersFor(key) == {t \in bank : t.key = key}

\* p's run logged "bereits verarbeitet" for the i-th employee.
ReportedProcessed(p, i) ==
    <<"INFO", "bereits verarbeitet", proc[p].employees[i].name>> \in Range(proc[p].logs)

\* p's run returned, and it was the second of two runs in a row with the same
\* inputs.
SecondOfTwo(p) == proc[p].pc = "done" /\ proc[p].repeat

\* C1 as stated: after the second of two runs with identical inputs, every
\* employee with an amount has been paid once (the key's row is success),
\* the second run reported each of them as already processed, and it sent
\* no POST /sepa/transfers.
C1_Original ==
    \A p \in Procs :
      SecondOfTwo(p) =>
        \A i \in 1..Len(proc[p].employees) :
          proc[p].employees[i].amount_cents > 0 =>
            /\ StatusOf(ledger, KeyAt(p, i)) = "success"
            /\ Cardinality(TransfersFor(KeyAt(p, i))) <= 1
            /\ ReportedProcessed(p, i)
            /\ <<i, "post">> \notin proc[p].netLog

\* C1 amended: after the second of two runs with identical inputs, every
\* employee the first run reported as succeeded was reported as already
\* processed by the second run, which made no network call for them, and the
\* bank holds at most one transfer for their key.
C1_Amended ==
    \A p \in Procs :
      SecondOfTwo(p) =>
        \A i \in 1..Len(proc[p].employees) :
          (proc[p].employees[i].amount_cents > 0
             /\ proc[p].employees[i].name \in Range(proc[p].prev_ok)) =>
            /\ ReportedProcessed(p, i)
            /\ <<i, "post">> \notin proc[p].netLog
            /\ <<i, "call">> \notin proc[p].netLog
            /\ Cardinality(TransfersFor(KeyAt(p, i))) <= 1

\* A second run with the same inputs returned after a first run in which
\* every employee succeeded, one of them by a transfer the bank created.
C1_Witness ==
    \E p \in Procs :
      /\ SecondOfTwo(p)
      /\ Len(proc[p].prev_ok) = Len(proc[p].employees)
      /\ Len(proc[p].employees) = 2
      /\ proc[p].netLog = {}
      /\ TransfersFor(KeyAt(p, 1)) # {}

\* p is inside create_transfer, before or between its bank calls.
AtBank(p) == proc[p].pc \in {"verify", "post1", "poll", "post2"}

\* C2: whatever runs were killed before, a run makes bank calls only for an
\* employee whose ledger row was not success when the flow began, and the
\* bank never holds two transfers for one (employee, period, amount) key.
C2_CrashSafe ==
    /\ \A p \in Procs : AtBank(p) => proc[p].startStatus # "success"
    /\ \A t1, t2 \in bank : t1.key = t2.key => t1 = t2

\* A run was killed after the bank created the transfer and before
\* record_success; the next run found the row pending, posted again and got
\* the existing transfer back.
C2_Witness ==
    \E p \in Procs :
      /\ proc[p].after = "dead"
      /\ proc[p].startStatus = "pending"
      /\ proc[p].pc = "record"
      /\ proc[p].resp.kind = "replayed"
      /\ Cardinality(TransfersFor(proc[p].key)) = 1

\* C3 as stated: a row has status success only if the bank answered that
\* key's transfer request Created (200/201) or with an idempotency conflict.
C3_SuccessOnlyConfirmed ==
    \A k \in DOMAIN ledger : ledger[k].status = "success" => k \in confirmed

\* C4: while a flow stands before any of its bank calls (verification,
\* transfer, approval poll, resubmission), the ledger holds its key's row
\* with status pending.
C4_PendingBeforeBank ==
    \A p \in Procs :
      AtBank(p) =>
        /\ proc[p].key \in DOMAIN ledger
        /\ ledger[proc[p].key].status = "pending"

\* A flow stands before its transfer request for a key whose row an earlier
\* run had left failed.
C4_Witness ==
    \E p \in Procs :
      /\ proc[p].pc = "post1"
      /\ proc[p].startStatus = "failed"
      /\ ledger[proc[p].key].status = "pending"

\* C5: in runs executed one after another, no step changes any field of a
\* row whose status is success.
C5_SuccessImmutable ==
    [][\A k \in DOMAIN ledger :
         ledger[k].status = "success" => (k \in DOMAIN ledger' /\ ledger'[k] = ledger[k])]_vars

\* A later run met a success row, skipped the employee and went on to write
\* another employee's row.
C5_Witness ==
    \E p \in Procs :
      /\ proc[p].after = "done"
      /\ proc[p].pc = "record"
      /\ proc[p].idx = 2
      /\ ReportedProcessed(p, 1)
      /\ ledger[KeyAt(p, 1)].status = "success"

\* C6 as stated: with two invocations running at the same time, once a row
\* is success no step changes its status or its transfer_id.
C6_CompareAndSet ==
    [][\A k \in DOMAIN ledger :
         ledger[k].status = "success" =>
           /\ ledger'[k].status = "success"
           /\ ledger'[k].transfer_id = ledger[k].transfer_id]_vars

\* C7: every POST /sepa/transfers about to be sent, first submission, retry
\* or resubmission, carries the ledger key of the employee's (name, period,
\* amount) as its idempotency header; every transfer at the bank was created
\* under that key, and no key has two transfers.
C7_IdempotencyToken ==
    /\ \A p \in Procs :
         /\ proc[p].pc = "post1" =>
              /\ FirstRequest(p).idem = KeyAt(p, proc[p].idx)
              /\ FirstRequest(p).idem \in DOMAIN ledger
         /\ proc[p].pc = "post2" =>
              /\ SecondRequest(p).idem = KeyAt(p, proc[p].idx)
              /\ SecondRequest(p).idem \in DOMAIN ledger
    /\ \A t \in bank : t.idem = t.key
    /\ \A k \in DOMAIN ledger : Cardinality(TransfersFor(k)) <= 1

\* In a first run the bank created the transfer, the response was lost, and
\* the retry inside _request got the same transfer back: still one transfer.
C7_Witness ==
    \E p \in Procs :
      /\ proc[p].after = "idle"
      /\ proc[p].startStatus = "absent"
      /\ proc[p].pc = "record"
      /\ proc[p].attempt > 1
      /\ proc[p].resp.kind = "replayed"
      /\ Cardinality(TransfersFor(proc[p].key)) = 1

\* C8: the approval wait is entered only on a 428 that carries a session
\* token; the resubmission is the first request again (same payload, same
\* idempotency key) with that token attached; after a denial or the deadline
\* no transfer request follows, the flow returns a failure, the row becomes
\* failed and the loop moves to the next employee.
C8_StepUp ==
    [][\A p \in Procs :
         /\ proc[p].pc = "poll" =>
              /\ proc[p].resp.status = 428
              /\ proc[p].resp.sca_session_token # ""
              /\ proc[p].sca_token = proc[p].resp.sca_session_token
              /\ proc'[p].pc \in {"poll", "post2", "record", "dead", "raised"}
              /\ proc'[p].pc = "record" =>
                   /\ ~proc'[p].result.success
                   /\ bank' = bank
         /\ proc[p].pc = "post2" =>
              /\ SecondRequest(p).payload = FirstRequest(p).payload
              /\ SecondRequest(p).idem = FirstRequest(p).idem
              /\ SecondRequest(p).sca = proc[p].resp.sca_session_token
              /\ SecondRequest(p).sca # ""
         /\ (proc[p].pc = "record" /\ ~proc[p].result.success /\ proc'[p].pc = "loop") =>
              /\ ledger'[proc[p].key].status = "failed"
              /\ proc'[p].idx = proc[p].idx + 1
              /\ proc'[p].employees = proc[p].employees]_vars

\* A challenged transfer was approved, resubmitted with the session token and
\* created by the bank.
C8_Witness ==
    \E p \in Procs :
      /\ proc[p].pc = "record"
      /\ proc[p].sca_token # ""
      /\ proc[p].resp.kind = "created"
      /\ proc[p].result.success

\* p stands at the head of the loop before an employee whose key's row is
\* success.
AtPaidEmployee(p) ==
    /\ proc[p].pc = "loop"
    /\ proc[p].idx <= Len(proc[p].employees)
    /\ Emp(p).amount_cents > 0
    /\ StatusOf(ledger, KeyAt(p, proc[p].idx)) = "success"

\* C9: for an employee whose key's row is success when their turn comes, the
\* run's only step is to count them as succeeded and move on: no network
\* call, no change of the ledger or of the bank.
C9_SkipPaid ==
    [][\A p \in Procs :
         (AtPaidEmployee(p) /\ proc'[p] # proc[p] /\ proc'[p].pc # "dead") =>
           /\ proc'[p].pc = "loop"
           /\ proc'[p].idx = proc[p].idx + 1
           /\ proc'[p].transfer_ok = Append(proc[p].transfer_ok, Emp(p).name)
           /\ proc'[p].transfer_fail = proc[p].transfer_fail
           /\ proc'[p].netLog = proc[p].netLog
           /\ ledger' = ledger
           /\ bank' = bank]_vars

\* An employee paid by an earlier run was skipped: the run stands behind them
\* with no network call made for them and the row as it was.
C9_Witness ==
    \E p \in Procs :
      /\ proc[p].pc = "loop"
      /\ proc[p].idx = 2
      /\ proc[p].startStatus = "success"
      /\ ReportedProcessed(p, 1)
      /\ proc[p].netLog = {}
      /\ ledger[KeyAt(p, 1)].status = "success"

AtNoAmount(p) ==
    /\ proc[p].pc = "loop"
    /\ proc[p].idx <= Len(proc[p].employees)
    /\ Emp(p).amount_cents <= 0

\* C11: for an employee whose amount is <= 0 the run's only step is to log a
\* warning, count them as failed and move on: no network call, no change of
\* the ledger or of the bank; so no ledger row and no transfer at the bank
\* ever carries an amount <= 0.
C11_NoAmountSkipped ==
    [][/\ \A p \in Procs :
           (AtNoAmount(p) /\ proc'[p] # proc[p] /\ proc'[p].pc # "dead") =>
             /\ proc'[p].pc = "loop"
             /\ proc'[p].idx = proc[p].idx + 1
             /\ proc'[p].logs = Append(proc[p].logs, <<"WARNING", "kein Betrag", Emp(p).name>>)
             /\ proc'[p].transfer_fail = Append(proc[p].transfer_fail, Emp(p).name)
             /\ proc'[p].transfer_ok = proc[p].transfer_ok
             /\ proc'[p].netLog = proc[p].netLog
             /\ ledger' = ledger
             /\ bank' = bank
       /\ \A k \in DOMAIN ledger' : ledger'[k].amount_cents > 0
       /\ \A t \in bank' : t.payload.amount # AmountStr(0)]_vars

\* [B without an amount, A paid]: the run returned with B warned about and
\* counted as failed, no row under B's key and no call made for B.
C11_Witness ==
    \E p \in Procs :
      /\ proc[p].pc = "done"
      /\ Len(proc[p].employees) = 2
      /\ proc[p].employees[1].amount_cents = 0
      /\ <<"WARNING", "kein Betrag", proc[p].employees[1].name>> \in Range(proc[p].logs)
      /\ proc[p].transfer_fail = <<proc[p].employees[1].name>>
      /\ KeyAt(p, 1) \notin DOMAIN ledger
      /\ <<1, "call">> \notin proc[p].netLog
      /\ TransfersFor(KeyAt(p, 2)) # {}

\* p's step is the verification call of the employee at hand.
Verified(p) == proc[p].pc = "verify" /\ proc'[p].pc # "verify"

\* The verification call was unreachable or answered a non-success status.
VerifyRefused(run) == run.outcome # "return" \/ run.resp.status # 200

\* After a failed verification: no transfer request, a failed result.
NoTransferAfter(p) ==
    /\ proc'[p].pc = "record"
    /\ ~proc'[p].result.success
    /\ <<proc[p].idx, "post">> \notin proc'[p].netLog
    /\ bank' = bank

\* A failed result is recorded as failed and the loop moves on.
FailureRecorded(p) ==
    (proc[p].pc = "record" /\ ~proc[p].result.success) =>
      /\ ledger'[proc[p].key].status = "failed"
      /\ proc'[p].pc = "loop"
      /\ proc'[p].idx = proc[p].idx + 1

\* C12 as stated: a verification call that is unreachable or answers a
\* non-success status leads to no transfer request, a failed row and the next
\* employee; one that answers 200 leads to the transfer request, whatever
\* the verdict.
C12_Original ==
    [][\A p \in Procs :
         /\ Verified(p) =>
              /\ VerifyRefused(proc'[p].last) => NoTransferAfter(p)
              /\ ~VerifyRefused(proc'[p].last) => proc'[p].pc = "post1"
         /\ FailureRecorded(p)]_vars

\* C12 amended: as stated, but a 200 leads to the transfer request only if
\* its body carries the proof token (whatever the verdict); a 200 without
\* the proof token is a failed verification like a non-success status.
C12_Amended ==
    [][\A p \in Procs :
         /\ Verified(p) =>
              LET run == proc'[p].last
              IN  /\ (VerifyRefused(run) \/ run.resp.kind = "malformed") => NoTransferAfter(p)
                  /\ (~VerifyRefused(run) /\ run.resp.kind = "ok") =>
                       /\ run.resp.body[1] \in Verdicts
                       /\ proc'[p].pc = "post1"
                       /\ proc'[p].vop_token # ""
                       /\ FirstRequest(p)'.payload.vop_proof_token = proc'[p].vop_token
         /\ proc[p].pc = "post1" => proc'[p].pc \in {"post1", "poll", "record", "raised"}
         /\ FailureRecorded(p)]_vars

\* The verification answered 503, then 200 with the verdict "no match": the
\* flow stands before the transfer request.
C12_Witness ==
    \E p \in Procs :
      /\ proc[p].pc = "post1"
      /\ proc[p].last.attempts = 2
      /\ proc[p].last.resp.body = <<"MATCH_RESULT_NO_MATCH">>
      /\ proc[p].vop_token # ""

\* The bank answers a transfer submission with 503 three times and then 201.
ThreeRefusalsThenCreated ==
    <<Hdr(ServerError, <<>>), Hdr(ServerError, <<>>), Hdr(ServerError, <<>>),
      Hdr(Resp(201, "created", <<>>, <<1>>, ""), <<>>)>>

\* s[1] < s[2] < ... for a sequence of numbers.
StrictlyIncreasing(s) == \A i \in 1..(Len(s) - 1) : s[i] < s[i + 1]

\* C13 as stated: a transfer submission answered 503, 503, 503 and then 201
\* ends in a success: three re-attempts were made after strictly increasing
\* waits, the flow records success, and the bank holds exactly one transfer
\* for the key.
C13_RetryThenCreated ==
    [][\A p \in Procs :
         (proc[p].pc = "record" /\ proc[p].script = ThreeRefusalsThenCreated
            /\ proc'[p].pc = "loop") =>
           /\ proc[p].last.attempts = 4
           /\ Len(proc[p].last.waits) = 3
           /\ StrictlyIncreasing(proc[p].last.waits)
           /\ proc[p].result.success
           /\ ledger'[proc[p].key].status = "success"
           /\ Cardinality(TransfersFor(proc[p].key)) = 1]_vars

\* p's state holds the script and the outcome of a verification or transfer
\* call of _request.
CallMade(p) == proc[p].script # <<>> /\ proc[p].last.outcome # "none"

\* A response with a 4xx status other than 429.
NonTransient(r) == r.status >= 400 /\ r.status < 500 /\ r.status # 429

\* C14 as stated: a _request call makes at most 3 attempts, each re-attempt
\* follows a transient outcome (429, 5xx, timeout, connection error) and a
\* wait of 2^attempt seconds, and a 4xx response other than 429 is returned
\* after one attempt without a wait.
C14_Original ==
    \A p \in Procs :
      CallMade(p) =>
        LET run == proc[p].last
            s   == proc[p].script
        IN  /\ run.attempts \in 1..Retries
            /\ Len(run.waits) = run.attempts - 1
            /\ \A i \in 1..(run.attempts - 1) :
                 /\ Transient(s[i])
                 /\ run.waits[i] = Pow2(i)
            /\ NonTransient(s[1]) =>
                 /\ run.attempts = 1
                 /\ run.waits = <<>>
                 /\ run.elapsed = 0
                 /\ run.outcome = "return"
                 /\ run.resp = s[1]

\* C14 amended: as stated, but the wait after a 429 or 5xx response that
\* carries a Retry-After header is the header's value; it is 2^attempt
\* seconds when the header is absent and after a timeout or connection error.
C14_Amended ==
    \A p \in Procs :
      CallMade(p) =>
        LET run == proc[p].last
            s   == proc[p].script
        IN  /\ run.attempts \in 1..Retries
            /\ Len(run.waits) = run.attempts - 1
            /\ \A i \in 1..(run.attempts - 1) :
                 /\ Transient(s[i])
                 /\ run.waits[i] = IF s[i].retry_after # <<>> /\ s[i].status # 0
                                   THEN ParseInt(s[i].retry_after).value
                                   ELSE Pow2(i)
            /\ NonTransient(s[1]) =>
                 /\ run.attempts = 1
                 /\ run.waits = <<>>
                 /\ run.elapsed = 0
                 /\ run.outcome = "return"
                 /\ run.resp = s[1]

\* A transfer submission was answered 503, then timed out, then was created:
\* three attempts with waits of 2 s and 4 s.
C14_Witness ==
    \E p \in Procs :
      /\ CallMade(p)
      /\ proc[p].pc = "record"
      /\ proc[p].script[1].status = 503
      /\ proc[p].script[2].kind = "timeout"
      /\ proc[p].last.attempts = 3
      /\ proc[p].last.waits = <<2, 4>>
      /\ proc[p].last.resp.status = 201

\* The call that p's step made used up the retry budget on transient
\* outcomes: three attempts, each one a 429, a 5xx, a timeout or a
\* connection error.
BudgetExhausted(p) ==
    /\ proc[p].pc \in {"verify", "post1", "post2"}
    /\ proc'[p].pc # proc[p].pc
    /\ proc'[p].last.attempts = Retries
    /\ \A i \in 1..Retries : Transient(proc'[p].script[i])

\* C15 as stated: a verification, submission or resubmission whose three
\* attempts all met a transient outcome returns a failed TransferResult (no
\* exception leaves create_transfer), and that failure is recorded as failed
\* with the loop moving on.
C15_ExhaustionReported ==
    [][\A p \in Procs :
         /\ BudgetExhausted(p) =>
              /\ proc'[p].pc = "record"
              /\ ~proc'[p].result.success
         /\ FailureRecorded(p)]_vars

\* p's step ends the approval wait.
WaitEnds(p) == proc[p].pc = "poll" /\ proc'[p].pc # "poll"

\* p's step is a pass of the approval wait after which the wait goes on.
WaitGoesOn(p) == proc[p].pc = "poll" /\ proc'[p].pc = "poll" /\ proc'[p] # proc[p]

\* C16 as stated: when the approval wait ends with no allow reported before
\* the deadline (the deadline passed, or allow came only after it), the wait
\* has returned false; and a flow whose wait returned false ends with the
\* row failed and without a transfer id.
C16_DeadlineFails ==
    [][\A p \in Procs :
         /\ (WaitEnds(p) /\ proc'[p].wait \in {"late", "timeout"}) =>
              /\ proc'[p].pc = "record"
              /\ ~proc'[p].result.success
         /\ (proc[p].pc = "record" /\ proc[p].wait \in {"deny", "timeout"}
               /\ proc'[p].pc = "loop") =>
              /\ ledger'[proc[p].key].status = "failed"
              /\ ledger'[proc[p].key].transfer_id = None]_vars

\* C17 as stated: the approval wait returns true only on an allow reported
\* before the deadline; at the deadline it returns false with the timeout
\* notification; and every pass after which it goes on moves the clock
\* forward, so the wait ends.
C17_DeadlineRespected ==
    [][\A p \in Procs :
         /\ (WaitEnds(p) /\ proc'[p].pc = "post2") =>
              /\ proc'[p].last.resp.body = <<"allow">>
              /\ proc[p].now + proc'[p].last.elapsed < proc[p].deadline
         /\ (WaitEnds(p) /\ proc[p].now >= proc[p].deadline) =>
              /\ proc'[p].pc = "record"
              /\ ~proc'[p].result.success
              /\ proc'[p].note = <<"WARNING", "SCA-Timeout", 0>>
         /\ WaitGoesOn(p) =>
              /\ proc[p].now < proc[p].deadline
              /\ proc'[p].now > proc[p].now]_vars

\* C18 as stated: before the deadline the approval wait ends only by
\* returning: true on a poll that reported allow, false on a poll that
\* reported a denial or cancellation; any other poll lets the wait go on.
C18_TerminalOnly ==
    [][\A p \in Procs :
         (proc[p].pc = "poll" /\ proc[p].now < proc[p].deadline /\ proc'[p] # proc[p]) =>
           /\ proc'[p].pc \in {"poll", "post2", "record"}
           /\ proc'[p].pc = "post2" => proc'[p].last.resp.body = <<"allow">>
           /\ proc'[p].pc = "record" =>
                /\ proc'[p].last.resp.status = 200
                /\ proc'[p].last.resp.body[1] \in {"deny", "denied", "rejected", "cancel"}
                /\ ~proc'[p].result.success
                /\ proc'[p].netLog = Net(p, {"poll"})]_vars

C20_StateMachine ==
    /\ \A k \in DOMAIN ledger : ledger[k].status \in {"pending", "success", "failed"}
    /\ \A key \in LedgerKeys, r \in LedgerRows, transfer_id \in TransferIds :
         LET pended  == record_pending(ledger, key, r.name, r.period, r.amount_cents, clock)
             succeeded == record_success(ledger, key, transfer_id, clock)
             failed  == record_failure(ledger, key, clock)
         IN  /\ DOMAIN ledger \subseteq DOMAIN pended
             /\ DOMAIN ledger \subseteq DOMAIN succeeded
             /\ DOMAIN ledger \subseteq DOMAIN failed
             /\ key \in DOMAIN failed => failed[key].status = "failed"
             /\ key \notin DOMAIN ledger =>
                  /\ DOMAIN pended = DOMAIN ledger \cup {key}
                  /\ pended[key].status = "pending"
                  /\ pended[key].transfer_id = None
                  /\ succeeded = ledger
                  /\ failed = ledger

\* One key's row went pending and then failed and is still there, and a
\* later call for the other, absent key left the ledger as it was.
C20_Witness ==
    \E k1, k2 \in LedgerKeys :
      /\ k1 \in DOMAIN ledger
      /\ ledger[k1].status = "failed"
      /\ ledger[k1].created_at = 1
      /\ ledger[k1].updated_at = 2
      /\ k2 \notin DOMAIN ledger
      /\ clock = 4

\* The (name, period, amount) triples of the rosters the runs are started
\* with, each with its key.
RunTriples ==
    UNION { { [name         |-> inp.employees[i].name,
               period       |-> inp.period,
               amount_cents |-> inp.employees[i].amount_cents,
               key          |-> make_idempotency_key(inp.employees[i].name, inp.period,
                                                     inp.employees[i].amount_cents)] :
                i \in DOMAIN inp.employees } : inp \in Inputs }

\* The answers of is_already_processed and of the check-transfer query on
\* ledger led: true, and "bereits erfolgreich ausgefuehrt", exactly for a
\* triple whose key has a row with status success.
SuccessOnly(led) ==
    \A t \in RunTriples :
      LET row == \E k \in DOMAIN led : k = t.key /\ led[k].status = "success"
      IN  /\ is_already_processed(led, t.key) <=> row
          /\ StatusOf(led, t.key) \in {"absent", "pending", "failed"} =>
               ~is_already_processed(led, t.key)
          /\ payroll_check_transfer(led, t.name, t.period, t.amount_cents) =
               (IF row THEN "bereits erfolgreich ausgefuehrt" ELSE "noch nicht verarbeitet")

\* p stands at the head of the loop before an employee with an amount whose
\* key has no success row.
AtUnpaidEmployee(p) ==
    /\ proc[p].pc = "loop"
    /\ proc[p].idx <= Len(proc[p].employees)
    /\ Emp(p).amount_cents > 0
    /\ StatusOf(ledger, KeyAt(p, proc[p].idx)) # "success"

\* C21: is_already_processed, and the check-transfer query built on it, is
\* true exactly when the key has a row with status success (on the empty
\* ledger and on every ledger a step leaves); for an absent, pending or
\* failed key it is false, so the run does not skip such an
\* employee: its next step takes the key on to record_pending, which leaves
\* the row pending (a failed row is set back, created_at kept) and enters
\* create_transfer under that same key.
C21_RetryableUnlessSuccess ==
    [][/\ (ledger = <<>> \/ ledger' # ledger) => SuccessOnly(ledger')
       /\ \A p \in Procs :
            /\ (AtUnpaidEmployee(p) /\ proc'[p] # proc[p] /\ proc'[p].pc # "dead") =>
                 /\ proc'[p].pc = "pending"
                 /\ proc'[p].key = KeyAt(p, proc[p].idx)
                 /\ proc'[p].startStatus = StatusOf(ledger, KeyAt(p, proc[p].idx))
                 /\ ledger' = ledger
            /\ (proc[p].pc = "pending" /\ proc'[p] # proc[p] /\ proc'[p].pc # "dead") =>
                 /\ proc'[p].pc = "verify"
                 /\ proc'[p].key = proc[p].key
                 /\ ledger'[proc[p].key].status = "pending"
                 /\ ledger'[proc[p].key].updated_at = clock
                 /\ proc[p].key \in DOMAIN ledger =>
                      ledger'[proc[p].key].created_at = ledger[proc[p].key].created_at
                 /\ bank' = bank]_vars

\* A run found the row of an earlier failed attempt, set it back to pending
\* and stands in create_transfer under that key.
C21_Witness ==
    \E p \in Procs :
      /\ proc[p].pc = "verify"
      /\ proc[p].startStatus = "failed"
      /\ proc[p].key \in DOMAIN ledger
      /\ ledger[proc[p].key].status = "pending"
      /\ ledger[proc[p].key].created_at < ledger[proc[p].key].updated_at
      /\ payroll_check_transfer(ledger, Emp(p).name, proc[p].period, Emp(p).amount_cents)
           = "noch nicht verarbeitet"

\* C22: record_pending is an upsert.  On an absent key it inserts a pending
\* row with the given name, period and amount and no transfer id; on an
\* existing key it sets status to pending and updated_at to now and leaves
\* employee_name, period, amount_cents, created_at and transfer_id as they
\* were; the row of every other key is unchanged.
C22_PendingUpsert ==
    \A key \in LedgerKeys, r \in LedgerRows :
      LET pended == record_pending(ledger, key, r.name, r.period, r.amount_cents, clock)
      IN  /\ DOMAIN pended = DOMAIN ledger \cup {key}
          /\ pended[key].status = "pending"
          /\ pended[key].updated_at = clock
          /\ key \notin DOMAIN ledger =>
               /\ pended[key].employee_name = r.name
               /\ pended[key].period = r.period
               /\ pended[key].amount_cents = r.amount_cents
               /\ pended[key].transfer_id = None
               /\ pended[key].created_at = clock
          /\ key \in DOMAIN ledger =>
               /\ pended[key].employee_name = ledger[key].employee_name
               /\ pended[key].period = ledger[key].period
               /\ pended[key].amount_cents = ledger[key].amount_cents
               /\ pended[key].created_at = ledger[key].created_at
               /\ pended[key].transfer_id = ledger[key].transfer_id
          /\ \A k \in DOMAIN ledger \ {key} : pended[k] = ledger[k]

\* A row that had succeeded with a transfer id was set back to pending by a
\* later record_pending and still carries its transfer id and its creation
\* time, next to another key's row.
C22_Witness ==
    \E k1, k2 \in LedgerKeys :
      /\ k1 # k2
      /\ k1 \in DOMAIN ledger
      /\ k2 \in DOMAIN ledger
      /\ ledger[k1].status = "pending"
      /\ ledger[k1].transfer_id = <<1>>
      /\ ledger[k1].created_at = 1
      /\ ledger[k1].updated_at = 4
      /\ ledger[k2].created_at = 2
      /\ ledger[k2].updated_at = 2

\* The keys a query with filter f is to cover in ledger led.
Covered(led, f) == {k \in DOMAIN led : f = None \/ led[k].period = f}

\* C23: query_all changes no record, and what it returns is every record
\* (with a period filter: exactly the records of that period), each once
\* and as stored, ordered by period descending and, within a period, by
\* creation time descending.
C23_QueryAll ==
    [][\A p \in Procs :
         proc'[p].listing # proc[p].listing =>
           LET f    == proc'[p].listing.period
               rows == proc'[p].listing.rows
           IN  /\ ledger' = ledger
               /\ {rows[i].idempotency_key : i \in DOMAIN rows} = Covered(ledger, f)
               /\ Len(rows) = Cardinality(Covered(ledger, f))
               /\ \A i \in DOMAIN rows : rows[i] = RowDict(ledger, rows[i].idempotency_key)
               /\ \A i, j \in DOMAIN rows :
                    i < j =>
                      \/ TextLess(rows[j].period, rows[i].period)
                      \/ /\ rows[j].period = rows[i].period
                         /\ rows[i].created_at >= rows[j].created_at]_vars

\* An unfiltered listing of two records in which the record of the later
\* period comes first although it was created after the other.
C23_Witness ==
    \E p \in Procs :
      /\ proc[p].listing.period = None
      /\ Len(proc[p].listing.rows) = 2
      /\ proc[p].listing.rows[1].period = Period02
      /\ proc[p].listing.rows[2].period = Period01
      /\ proc[p].listing.rows[1].created_at < proc[p].listing.rows[2].created_at

\* Spellings of names: the rosters' names, and others in other letter case,
\* with blanks, tabs or line ends around them, or with a blank inside.
NameSpellings ==
    { NameAl, NameAlLower, NameAlPadded, NameBo,
      <<"a", "L">>, <<"\n", "a", "l", " ", " ">>, <<"A", " ", "l">>,
      <<"b", "O", " ">>, <<"\t", "B", "o">> }

\* c and d are one letter, in whichever case.
SameLetter(c, d) ==
    \/ c = d
    \/ {c, d} \in {{"A", "a"}, {"B", "b"}, {"L", "l"}, {"O", "o"}}

Blank(s) == \A i \in DOMAIN s : s[i] \in {" ", "\t", "\n"}

\* The name n with some of the white space around it taken away.
Trimmed(n) ==
    { SubSeq(n, x[1], x[2]) :
        x \in { y \in (1..Len(n) + 1) \X (0..Len(n)) :
                  /\ Blank(SubSeq(n, 1, y[1] - 1))
                  /\ Blank(SubSeq(n, y[2] + 1, Len(n))) } }

\* n1 and n2 differ only in letter case or in surrounding white space.
SameName(n1, n2) ==
    \E c1 \in Trimmed(n1), c2 \in Trimmed(n2) :
      /\ Len(c1) = Len(c2)
      /\ \A i \in DOMAIN c1 : SameLetter(c1[i], c2[i])

\* Any two spellings of one name give one key, whatever the period and the
\* amount.
KeyNormalised ==
    \A n1, n2 \in NameSpellings, period \in {Period01, Period02}, amount_cents \in {0, 7, 12} :
      SameName(n1, n2) =>
        make_idempotency_key(n1, period, amount_cents) =
          make_idempotency_key(n2, period, amount_cents)

\* C24: make_idempotency_key depends on nothing but its triple, so the key
\* under which a row was written is the key its stored triple gives in every
\* later state and process, and the key a process works under is the key of
\* its employee's triple; two names that differ only in letter case or in
\* surrounding white space give the same key.
C24_KeyPure ==
    /\ KeyNormalised
    /\ \A k \in DOMAIN ledger :
         make_idempotency_key(ledger[k].employee_name, ledger[k].period,
                              ledger[k].amount_cents) = k
    /\ \A p \in Procs :
         proc[p].pc \in {"pending", "verify", "post1", "poll", "post2", "record"} =>
           proc[p].key = make_idempotency_key(Emp(p).name, proc[p].period,
                                              Emp(p).amount_cents)

\* A run whose roster spells the name in lower case works under the key of
\* the row an earlier run wrote under the capitalised spelling.
C24_Witness ==
    \E p \in Procs :
      /\ proc[p].pc = "verify"
      /\ Emp(p).name = NameAlLower
      /\ proc[p].key \in DOMAIN ledger
      /\ ledger[proc[p].key].employee_name = NameAl
      /\ SameName(NameAlPadded, NameAlLower)
      /\ ~SameName(<<"A", " ", "l">>, NameAl)

\* The pass of process_pdf's loop that p makes in this step: the page it
\* handles (counted from 0) and its text.
PageStep(p) ==
    /\ proc[p].pdf.pc = "pages"
    /\ proc'[p].pdf.idx = proc[p].pdf.idx + 1

PageText(p) == proc[p].pdf.pages[proc[p].pdf.idx + 1]

\* The highest identity score of the page over the roster.
MaxScore(p) ==
    LET S == {ScoreOf[PageText(p)][proc[p].pdf.employees[i].name] :
                i \in DOMAIN proc[p].pdf.employees}
    IN  CHOOSE m \in S : \A s \in S : s <= m

\* C25: a page whose highest score over the roster is below 0.4 is added to
\* unmatched_pages and changes no employee (page_index, amount_cents and
\* pdf_saved of all as before) and no file; a page whose highest score is
\* at least 0.4 is given to an employee and is not reported unmatched.  A
\* page that holds only "Richter" scores exactly 0.4 for "Michael Richter"
\* and is matched; a page with neither name token scores 0.0 and is not.
C25_Threshold ==
    [][\A p \in Procs :
         PageStep(p) =>
           LET pd  == proc[p].pdf
               pd2 == proc'[p].pdf
           IN  /\ MaxScore(p) < AcceptScore =>
                    /\ pd2.unmatched_pages = Append(pd.unmatched_pages, pd.idx + 1)
                    /\ pd2.employees = pd.employees
                    /\ pd2.files = pd.files
                    /\ pd2.saved_files = pd.saved_files
                    /\ pd2.errors = pd.errors
               /\ MaxScore(p) >= AcceptScore =>
                    /\ pd2.unmatched_pages = pd.unmatched_pages
                    /\ \E i \in DOMAIN pd.employees : pd2.employees[i].page_index = pd.idx
               /\ PageText(p) = <<"R", "i", "c", "h", "t", "e", "r">> =>
                    /\ ScoreOf[PageText(p)][NameMichael] = AcceptScore
                    /\ MaxScore(p) = AcceptScore
                    /\ pd2.unmatched_pages = pd.unmatched_pages
               /\ PageText(p) = <<"D", "e", "c", "k", "b", "l", "a", "t", "t",
                                  " ", "1", "2", ",", "5", "0", " ", "E", "U",
                                  "R">> =>
                    /\ MaxScore(p) = 0
                    /\ pd2.unmatched_pages = Append(pd.unmatched_pages, pd.idx + 1)]_vars

\* A cover sheet was reported unmatched and left the roster as parsed; the
\* page after it, holding only the last name, was matched at exactly 0.4.
C25_Witness ==
    \E p \in Procs :
      /\ proc[p].pdf.pages = <<<<"D", "e", "c", "k", "b", "l", "a", "t", "t",
                                 " ", "1", "2", ",", "5", "0", " ", "E", "U",
                                 "R">>, <<"R", "i", "c", "h", "t", "e",
                                 "r">>>>
      /\ proc[p].pdf.idx = 2
      /\ proc[p].pdf.unmatched_pages = <<1>>
      /\ proc[p].pdf.best_score = AcceptScore
      /\ proc[p].pdf.employees[1].page_index = 1
      /\ proc[p].pdf.employees[2].page_index = -1

\* The employees (places in the roster) that reach the page's highest score.
TopScorers(p) ==
    {i \in DOMAIN proc[p].pdf.employees :
       ScoreOf[PageText(p)][proc[p].pdf.employees[i].name] = MaxScore(p)}

\* C26: when several employees reach the same highest score on a page, the
\* page goes to the one that stands first in the roster: it is that
\* employee, and no other, whose page index and amount the page sets.
C26_FirstInRosterWins ==
    [][\A p \in Procs :
         (PageStep(p) /\ MaxScore(p) >= AcceptScore) =>
           LET pd    == proc[p].pdf
               pd2   == proc'[p].pdf
               first == CHOOSE i \in TopScorers(p) : \A j \in TopScorers(p) : i <= j
           IN  /\ pd2.best_emp = first
               /\ pd2.best_score = MaxScore(p)
               /\ pd2.employees[first].page_index = pd.idx
               /\ pd2.employees[first].amount_cents = AmountOf[PageText(p)]
               /\ \A i \in DOMAIN pd.employees :
                    i # first =>
                      /\ pd2.employees[i].page_index = pd.employees[i].page_index
                      /\ pd2.employees[i].amount_cents = pd.employees[i].amount_cents
                      /\ pd2.employees[i].pdf_saved = pd.employees[i].pdf_saved]_vars

\* A page holding only the last name both employees share, which scores 0.4
\* for each, went to the one listed first: Anna Richter in the roster that
\* starts with her.
C26_Witness ==
    \E p \in Procs :
      /\ proc[p].pdf.pages = <<<<"R", "i", "c", "h", "t", "e", "r">>>>
      /\ proc[p].pdf.idx = 1
      /\ proc[p].pdf.employees[1].name = NameAnna
      /\ ScoreOf[proc[p].pdf.pages[1]][NameAnna] = ScoreOf[proc[p].pdf.pages[1]][NameMichael]
      /\ proc[p].pdf.best_emp = 1
      /\ proc[p].pdf.employees[1].page_index = 0
      /\ proc[p].pdf.employees[2].page_index = -1

\* The employee (place in roster) that page k of document pd is to go to: the
\* first of those with the highest score if that score reaches 0.4, else 0.
Winner(pd, k) ==
    LET score(i) == ScoreOf[pd.pages[k]][pd.employees[i].name]
        top      == {i \in DOMAIN pd.employees :
                       \A j \in DOMAIN pd.employees : score(j) <= score(i)}
        first    == CHOOSE i \in top : \A j \in top : i <= j
    IN  IF score(first) >= AcceptScore THEN first ELSE 0

\* C27: when process_pdf has returned, every employee carries the page index
\* and the amount of the last page of the document that was given to them,
\* whatever the earlier pages given to them scored or held and even when
\* that last page's amount is 0, and the defaults (-1, 0) when no page was
\* given to them; the errors reported are as many as the pages whose saving
\* failed, so the overwriting itself reports none.
C27_LastPageWins ==
    \A p \in Procs :
      (proc[p].pdf.pc = "returned" /\ proc[p].pdf.pages # <<>>) =>
        LET pd      == proc[p].pdf
            matched == {k \in DOMAIN pd.pages : Winner(pd, k) # 0}
        IN  /\ \A i \in DOMAIN pd.employees :
                 LET mine == {k \in DOMAIN pd.pages : Winner(pd, k) = i}
                     last == CHOOSE k \in mine : \A j \in mine : j <= k
                 IN  IF mine = {}
                     THEN pd.employees[i].page_index = -1 /\ pd.employees[i].amount_cents = 0
                     ELSE /\ pd.employees[i].page_index = last - 1
                          /\ pd.employees[i].amount_cents = AmountOf[pd.pages[last]]
            /\ Len(pd.errors) + Len(pd.saved_files) = Cardinality(matched)

\* A payslip with the full name and an amount was followed by a page with
\* the last name only and no amount: both were saved, no error was reported,
\* and the employee is left with the second page and the amount 0.
C27_Witness ==
    \E p \in Procs :
      /\ proc[p].pdf.pc = "returned"
      /\ proc[p].pdf.pages =
           <<<<"M", "i", "c", "h", "a", "e", "l", " ", "R", "i", "c", "h", "t",
               "e", "r", "\n", "A", "u", "s", "z", "a", "h", "l", "u", "n",
               "g", "s", "b", "e", "t", "r", "a", "g", ":", " ", "7", ".", "6",
               "3", "3", ",", "6", "3", " ", "E", "U", "R">>, <<"R", "i", "c",
               "h", "t", "e", "r">>>>
      /\ proc[p].pdf.employees[1].name = NameMichael
      /\ proc[p].pdf.employees[1].page_index = 1
      /\ proc[p].pdf.employees[1].amount_cents = 0
      /\ Len(proc[p].pdf.saved_files) = 2
      /\ proc[p].pdf.errors = <<>>

\* Names to score: the roster's, in other case and with blanks around or
\* doubled inside, of one token, of three, and the empty one.
ScoreNames ==
    { NameMichael, NameAnna, <<"M", "I", "C", "H", "A", "E", "L", " ", "R",
                               "I", "C", "H", "T", "E", "R">>, <<" ", "M", "i",
                               "c", "h", "a", "e", "l", " ", "R", "i", "c",
                               "h", "t", "e", "r", "\t">>,
      <<"M", "i", "c", "h", "a", "e", "l", " ", " ", "R", "i", "c", "h", "t",
        "e", "r">>, <<"C", "h", "e", "r">>, <<"A", "n", "n", "a", " ", "M",
        "a", "r", "i", "a", " ", "R", "i", "c", "h", "t", "e", "r">>, <<>> }

\* Texts to score them on: the page texts and texts with one token, with the
\* tokens apart, and in upper case.
ScoreTexts ==
    PageTexts \cup { <<"i", "c", "h", " ", "c", "h", "e", "r">>, <<"R", "I",
                       "C", "H", "T", "E", "R", " ", "A", "N", "N", "A", ",",
                       " ", "g", "e", "b", ".", " ", "M", "a", "r", "i", "a">>,
                       <<"a", "n", "n", "a", " ", "m", "a", "r", "i", "a">> }

\* The tiers as stated, on lower-cased text and name.
ScoreTiers(text, name) ==
    LET t     == Lower(text)
        n     == Lower(Strip(name))
        toks  == Split(n)
        full  == Contains(n, t)
        all   == toks # <<>> /\ \A i \in DOMAIN toks : Contains(toks[i], t)
        last  == toks # <<>> /\ Contains(toks[Len(toks)], t)
        first == toks # <<>> /\ Contains(toks[1], t)
        s     == _score_name_match(text, name)
    IN  /\ s \in {0, 2, 4, 7, 10}
        /\ full => s = 10
        /\ (~full /\ all) => s = 7
        /\ (~full /\ ~all /\ last) => s = 4
        /\ (~full /\ ~all /\ ~last /\ first) => s = 2
        /\ (~full /\ ~all /\ ~last /\ ~first) => s = 0

ScoreTiersHold == \A text \in ScoreTexts, name \in ScoreNames : ScoreTiers(text, name)

\* C28: _score_name_match, comparing in lower case, gives 1.0 when the full
\* name is in the text, else 0.7 when every white-space delimited token of
\* the name is, else 0.4 when the last token is, else 0.2 when the first
\* is, else 0.0, so one of those five values; the score a page is matched
\* with is the highest of these over the roster.
C28_ScoreTiers ==
    /\ ScoreTiersHold
    /\ \A p \in Procs :
         (proc[p].pdf.pc = "pages" /\ proc[p].pdf.idx > 0) =>
           LET pd == proc[p].pdf
           IN  /\ pd.best_score \in {0, 2, 4, 7, 10}
               /\ \A i \in DOMAIN pd.employees :
                    ScoreOf[pd.pages[pd.idx]][pd.employees[i].name] <= pd.best_score
               /\ \E i \in DOMAIN pd.employees :
                    ScoreOf[pd.pages[pd.idx]][pd.employees[i].name] = pd.best_score

\* A page with both name tokens in reverse order was scored 0.7 for one
\* employee and 0.4 for the other, whose last name it holds, and a page in
\* upper case scores 1.0 for the name in mixed case.
C28_Witness ==
    \E p \in Procs :
      /\ proc[p].pdf.pc = "pages"
      /\ proc[p].pdf.idx = 1
      /\ proc[p].pdf.pages[1] = <<"R", "i", "c", "h", "t", "e", "r", ",", " ",
                                  "M", "i", "c", "h", "a", "e", "l", " ", "N",
                                  "e", "t", "t", "o", " ", "1", ".", "0", "0",
                                  "0", ",", "0", "0">>
      /\ proc[p].pdf.best_score = 7
      /\ proc[p].pdf.employees[proc[p].pdf.best_emp].name = NameMichael
      /\ ScoreOf[proc[p].pdf.pages[1]][NameAnna] = 4
      /\ _score_name_match(<<"M", "i", "c", "h", "a", "e", "l", " ", "B">>,
                             NameMichael) = 2
      /\ _score_name_match(<<"A", "N", "N", "A", " ", "R", "I", "C", "H", "T",
                             "E", "R">>, NameAnna) = 10

\* p's pass over a page ends in `except OSError`: an error is added.
SaveFails(p) ==
    /\ PageStep(p)
    /\ proc'[p].pdf.errors # proc[p].pdf.errors

\* C29: when saving a matched page fails with an I/O error, the match
\* stands (the employee has the index and the amount of that page), the
\* failure is appended to the errors with the page number and the name, the
\* page is not added to saved_files and does not set pdf_saved, and the loop
\* goes on: process_pdf returns only after every page has been handled.
C29_SaveFailureIsolated ==
    [][\A p \in Procs :
         LET pd  == proc[p].pdf
             pd2 == proc'[p].pdf
         IN  /\ SaveFails(p) =>
                  LET e == Winner(pd, pd.idx + 1)
                  IN  /\ e # 0
                      /\ pd2.employees[e].page_index = pd.idx
                      /\ pd2.employees[e].amount_cents = AmountOf[PageText(p)]
                      /\ pd2.employees[e].pdf_saved = pd.employees[e].pdf_saved
                      /\ pd2.errors = Append(pd.errors, <<pd.idx + 1, pd.employees[e].name>>)
                      /\ pd2.saved_files = pd.saved_files
                      /\ pd2.unmatched_pages = pd.unmatched_pages
                      /\ pd2.pc = "pages"
                      /\ pd2.pages = pd.pages
             /\ (pd.pc = "pages" /\ pd2.pc = "returned") => pd.idx = Len(pd.pages)]_vars

\* Saving the first page failed; the employee keeps that page and its
\* amount without being marked saved, and the second page was still matched
\* and saved for the other employee.
C29_Witness ==
    \E p \in Procs :
      /\ proc[p].pdf.pc = "returned"
      /\ proc[p].pdf.pages =
           <<<<"M", "i", "c", "h", "a", "e", "l", " ", "R", "i", "c", "h", "t",
               "e", "r", "\n", "A", "u", "s", "z", "a", "h", "l", "u", "n",
               "g", "s", "b", "e", "t", "r", "a", "g", ":", " ", "7", ".", "6",
               "3", "3", ",", "6", "3", " ", "E", "U", "R">>,
             <<"A", "n", "n", "a", " ", "R", "i", "c", "h", "t", "e", "r", " ",
               "N", "e", "t", "t", "o", ":", " ", "0", ",", "0", "0", " ", "B",
               "e", "t", "r", "a", "g", ":", " ", "5", ",", "0", "0">>>>
      /\ proc[p].pdf.errors = <<<<1, NameMichael>>>>
      /\ proc[p].pdf.employees[1].name = NameMichael
      /\ proc[p].pdf.employees[1].page_index = 0
      /\ proc[p].pdf.employees[1].amount_cents = 763363
      /\ ~proc[p].pdf.employees[1].pdf_saved
      /\ proc[p].pdf.employees[2].page_index = 1
      /\ proc[p].pdf.employees[2].pdf_saved
      /\ Len(proc[p].pdf.saved_files) = 1
      /\ \E f \in proc[p].pdf.files : f.page = 1 /\ ~f.whole

\* Texts to extract from: the page texts, the two of the specification, and
\* texts where a later pattern stands earlier in the text, where a labelled
\* field is zero and only the currency pattern is left, and where the first
\* amount before a currency is zero.
AmountTexts ==
    PageTexts \cup
    { <<"A", "u", "s", "z", "a", "h", "l", "u", "n", "g", "s", "b", "e", "t",
        "r", "a", "g", ":", " ", "7", ".", "6", "3", "3", ",", "6", "3", " ",
        "E", "U", "R">>, <<"B", "e", "t", "r", "a", "g", " ", "0", ",", "0",
        "0">>,
      <<"1", "2", ",", "5", "0", " ", "E", "U", "R", " ", "Z", "a", "h", "l",
        "b", "e", "t", "r", "a", "g", " ", "3", ",", "0", "0", " ", "A", "u",
        "s", "z", "a", "h", "l", "u", "n", "g", "s", "b", "e", "t", "r", "a",
        "g", ":", " ", "4", ",", "0", "0">>,
      <<"N", "e", "t", "t", "o", "l", "o", "h", "n", " ", "=", " ", "0", ",",
        "0", "0", " ", "S", "u", "m", "m", "e", " ", "1", ".", "2", "3", "4",
        ",", "5", "6", " ", "€">>,
      <<"N", "e", "t", "t", "o", " ", "0", ",", "0", "0", " ", "E", "U", "R",
        " ", "d", "a", "n", "n", " ", "5", ",", "0", "0", " ", "E", "U",
        "R">>,
      <<"Ü", "b", "e", "r", "w", "e", "i", "s", "u", "n", "g", "s", "b", "e",
        "t", "r", "a", "g", " ", "-", " ", "E", "U", "R", " ", "9", "9", ",",
        "9", "0">> }

\* What the k-th pattern yields on a text: the cents of its leftmost match,
\* -1 when it does not match.
Yield(text, k) ==
    LET match == Search(_AMOUNT_PATTERNS[k], text)
    IN  IF match = <<>> THEN -1 ELSE _german_amount_to_cents(match)

\* The result is the yield of the first pattern of the list whose yield is
\* strictly positive, 0 when there is none.
FirstPositive(text) ==
    LET hits == {k \in DOMAIN _AMOUNT_PATTERNS : Yield(text, k) > 0}
    IN  _extract_amount(text) =
          IF hits = {} THEN 0
          ELSE Yield(text, CHOOSE k \in hits : \A j \in hits : k <= j)

FirstPositiveHolds ==
    /\ \A text \in AmountTexts : FirstPositive(text)
    /\ \A k \in DOMAIN _AMOUNT_PATTERNS :
         _AMOUNT_PATTERNS[k].kind = "currency" => k = Len(_AMOUNT_PATTERNS)
    /\ _AMOUNT_PATTERNS[1].word = <<"a", "u", "s", "z", "a", "h", "l", "u",
                                    "n", "g", "s", "b", "e", "t", "r", "a",
                                    "g">>
    /\ _AMOUNT_PATTERNS[2].word = <<"a", "u", "s", "z", "a", "h", "l", "u",
                                    "n", "g", "s", "b", "e", "t", "r", "a",
                                    "g">>
    /\ _extract_amount(<<"A", "u", "s", "z", "a", "h", "l", "u", "n", "g", "s",
                         "b", "e", "t", "r", "a", "g", ":", " ", "7", ".", "6",
                         "3", "3", ",", "6", "3", " ", "E", "U",
                         "R">>) = 763363
    /\ _extract_amount(<<"B", "e", "t", "r", "a", "g", " ", "0", ",", "0",
                         "0">>) = 0
    /\ _extract_amount(<<"1", "2", ",", "5", "0", " ", "E", "U", "R", " ", "Z",
                         "a", "h", "l", "b", "e", "t", "r", "a", "g", " ", "3",
                         ",", "0", "0", " ", "A", "u", "s", "z", "a", "h", "l",
                         "u", "n", "g", "s", "b", "e", "t", "r", "a", "g", ":",
                         " ", "4", ",", "0", "0">>) = 400
    /\ _extract_amount(<<"N", "e", "t", "t", "o", "l", "o", "h", "n", " ", "=",
                         " ", "0", ",", "0", "0", " ", "S", "u", "m", "m", "e",
                         " ", "1", ".", "2", "3", "4", ",", "5", "6", " ",
                         "€">>) = 123456
    /\ _extract_amount(<<"N", "e", "t", "t", "o", " ", "0", ",", "0", "0", " ",
                         "E", "U", "R", " ", "d", "a", "n", "n", " ", "5", ",",
                         "0", "0", " ", "E", "U", "R">>) = 0

\* C30: _extract_amount goes through the pattern list in its order (the
\* payout-amount labels first, the bare amount with a currency last) and
\* returns the amount of the first pattern whose match parses to a strictly
\* positive number of cents; a pattern whose match is zero is passed over,
\* and with no such pattern the result is 0.  "Auszahlungsbetrag: 7.633,63
\* EUR" gives 763363, "Betrag 0,00" gives 0.  The amount process_pdf takes
\* for a page is this value.
C30_FirstPositiveAmount ==
    /\ FirstPositiveHolds
    /\ \A p \in Procs :
         (proc[p].pdf.pc = "pages" /\ proc[p].pdf.idx > 0) =>
           /\ proc[p].pdf.amount = AmountOf[proc[p].pdf.pages[proc[p].pdf.idx]]
           /\ proc[p].pdf.amount >= 0

\* A payslip whose net field is 0,00 and whose generic amount field is 5,00
\* was read as 500 cents: the net pattern matched, was passed over, and the
\* later pattern gave the amount the employee now carries.
C30_Witness ==
    \E p \in Procs :
      /\ proc[p].pdf.pc = "pages"
      /\ proc[p].pdf.idx = 1
      /\ proc[p].pdf.pages[1] = <<"A", "n", "n", "a", " ", "R", "i", "c", "h",
                                  "t", "e", "r", " ", "N", "e", "t", "t", "o",
                                  ":", " ", "0", ",", "0", "0", " ", "B", "e",
                                  "t", "r", "a", "g", ":", " ", "5", ",", "0",
                                  "0">>
      /\ proc[p].pdf.amount = 500
      /\ proc[p].pdf.employees[proc[p].pdf.best_emp].name = NameAnna
      /\ proc[p].pdf.employees[proc[p].pdf.best_emp].amount_cents = 500

\* The cents an amount string of the _AMT form states: its digits read as
\* one number, which is 100 times the integer part plus the two-digit
\* fraction.
ExactCents(amount_str) ==
    LET digits == SelectSeq(amount_str, IsDigit)
    IN  ToBits(DecLimbs(digits, <<>>))

\* C31: for every amount string of the form 1-3 digits, groups of '.ddd',
\* then ',dd', _german_amount_to_cents returns exactly 100 times the integer
\* part (thousands dots removed) plus the two-digit fraction.
C31_ExactCents ==
    \A p \in Procs :
      proc[p].cents # NoCents =>
        proc[p].cents.cents = ExactCents(proc[p].cents.amount_str)

\* The run of p has just ended in `except QontoConfigError`.
ConfigFailed(pr) ==
    /\ pr.pc = "done"
    /\ pr.returned = "logs"
    /\ ~pr.skip_transfers

\* C32: a configuration error (a required banking setting missing, or the
\* debit account not resolvable) is fatal to the whole run with no partial
\* processing attempted: in a run that ends with it no document page is
\* saved, no ledger record is written and no transfer is submitted.
C32_ConfigErrorFatal ==
    [][\A p \in Procs :
         (ConfigFailed(proc'[p]) /\ proc'[p] # proc[p]) =>
           /\ proc'[p].pdf.saved_files = <<>>
           /\ proc'[p].pdf.files = {}
           /\ \A i \in DOMAIN proc'[p].pdf.employees :
                ~proc'[p].pdf.employees[i].pdf_saved
           /\ ledger' = ledger
           /\ bank' = bank
           /\ \A e \in proc'[p].netLog : e[2] # "post"]_vars

\* C33: every payroll_process run, whichever path it takes, ends with the
\* summary report (successes, failures with names, unmatched pages): a run
\* that is over has returned its log lines followed by the summary block.
C33_SummaryOnEveryPath ==
    \A p \in Procs :
      proc[p].pc \in {"done", "raised"} => proc[p].returned = "summary"

\* C34: an empty or errored roster is fatal for the run: if parse_csv
\* returns any error or no employee, payroll_process stops before matching
\* any page: the entry step ends the run with the roster message, no page
\* is opened or saved, the ledger and the bank are as they were, no call is
\* made; and such a run takes no further step.
C34_RosterFatal ==
    [][\A p \in Procs :
         /\ ( /\ runs' = runs + 1
              /\ proc'[p].pc # "idle"
              /\ \/ proc'[p].csv_result.errors # <<>>
                 \/ proc'[p].csv_result.employees = <<>> ) =>
              /\ proc'[p].pc = "done"
              /\ proc'[p].returned \in {"csv_errors", "no_employees"}
              /\ proc'[p].pdf = NoPdf
              /\ proc'[p].netLog = {}
              /\ proc'[p].transfer_ok = <<>> /\ proc'[p].transfer_fail = <<>>
              /\ ledger' = ledger
              /\ bank' = bank
              /\ confirmed' = confirmed
         /\ (proc[p].csv_result.errors # <<>> /\ proc'[p] # proc[p]) =>
              runs' = runs + 1]_vars

\* A run was refused for a roster with one bad row and one good row, while
\* the ledger holds the row of an earlier run.
C34_Witness ==
    \E p \in Procs :
      /\ proc[p].pc = "done"
      /\ proc[p].returned = "csv_errors"
      /\ proc[p].csv_result.employees # <<>>
      /\ proc[p].pdf = NoPdf
      /\ ledger # <<>>

\* C35: a validation error on a single item is logged, only that item is
\* skipped and the run continues: a roster in which some row is bad and
\* some row is valid goes on to the pages with its valid rows, and a page
\* that matches no employee is noted while the loop goes on to the next
\* page.
C35_ItemErrorIsolated ==
    [][\A p \in Procs :
         /\ ( /\ runs' = runs + 1
              /\ proc'[p].pc # "idle"
              /\ proc'[p].csv_result.employees # <<>> ) =>
              /\ proc'[p].pc = "pdf"
              /\ proc'[p].pdf.employees = proc'[p].csv_result.employees
         /\ ( /\ proc[p].pdf.pc = "pages"
              /\ proc'[p].pdf.unmatched_pages # proc[p].pdf.unmatched_pages ) =>
              /\ proc'[p].pdf.pc = "pages"
              /\ proc'[p].pdf.idx = proc[p].pdf.idx + 1
              /\ proc'[p].pdf.unmatched_pages =
                   Append(proc[p].pdf.unmatched_pages, proc'[p].pdf.idx)
              /\ proc'[p].pdf.saved_files = proc[p].pdf.saved_files]_vars

\* C36: in documents-only mode (skip_transfers = true) payroll_process
\* matches pages and saves documents but skips transfers entirely: from its
\* entry to its return such a run constructs no bank client and makes no
\* credential or bank call, leaves the ledger, the bank and the
\* confirmations as they were, and returns the log lines with the result
\* of process_pdf untouched.
C36_DocumentsOnly ==
    [][\A p \in Procs :
         /\ (runs' = runs + 1 /\ proc'[p].pc # "idle" /\ proc'[p].skip_transfers) =>
              /\ proc'[p].pc \in {"pdf", "done"}
              /\ proc'[p].netLog = {}
              /\ ledger' = ledger /\ bank' = bank /\ confirmed' = confirmed
         /\ (proc[p].skip_transfers /\ proc[p].pc = "pdf" /\ proc'[p] # proc[p]) =>
              /\ proc'[p].pc \in {"pdf", "done"}
              /\ proc'[p].skip_transfers
              /\ proc'[p].netLog = {}
              /\ proc'[p].transfer_ok = <<>> /\ proc'[p].transfer_fail = <<>>
              /\ ledger' = ledger /\ bank' = bank /\ confirmed' = confirmed
              /\ proc'[p].pc = "done" =>
                   /\ proc[p].pdf.pc = "returned"
                   /\ proc'[p].pdf = proc[p].pdf
                   /\ proc'[p].returned = "logs"]_vars

\* A documents-only run has returned with a payslip saved, while the ledger
\* holds the row of an earlier run.
C36_Witness ==
    \E p \in Procs :
      /\ proc[p].pc = "done"
      /\ proc[p].skip_transfers
      /\ proc[p].returned = "logs"
      /\ proc[p].pdf.saved_files # <<>>
      /\ proc[p].pdf.files # {}
      /\ proc[p].netLog = {}
      /\ ledger # <<>>


\* The positions of one employee's flow between record_pending and the
\* record_success / record_failure that closes it.
InTransfer == {"verify", "post1", "poll", "post2", "record"}

\* C37: no failure of a collaborator cuts the run short or leaves a row
\* pending: whenever a live run leaves an employee's transfer flow, it is
\* back at the loop head for the next employee and the row it had set to
\* pending is success or failed.
C37_PendingAlwaysClosed ==
    [][\A p \in Procs :
         (proc[p].pc \in InTransfer /\ proc'[p].pc \notin InTransfer \cup {"dead"}) =>
            /\ proc'[p].pc = "loop"
            /\ proc'[p].idx = proc[p].idx + 1
            /\ StatusOf(ledger', proc[p].key) \in {"success", "failed"}]_vars


\* How often a name occurs in a list of names.
Occurrences(name, names) == Cardinality({i \in 1..Len(names) : names[i] = name})

\* The employees the loop has passed are each in exactly one of the two
\* lists of the summary, and nobody else is.
CountedOnce(pr, passed) ==
    /\ Len(pr.transfer_ok) + Len(pr.transfer_fail) = passed
    /\ \A i \in 1..passed :
         Occurrences(pr.employees[i].name, pr.transfer_ok \o pr.transfer_fail) = 1

\* C38: every pass of the loop puts the employee's name into exactly one of
\* transfer_ok and transfer_fail: into transfer_ok when they are skipped as
\* already processed or their transfer succeeded, into transfer_fail
\* otherwise; an employee with amount <= 0 is counted as failed and has no
\* ledger row.  No other step of the run changes the lists, so the summary
\* counts every roster employee exactly once.
C38_CountedExactlyOnce ==
    [][\A p \in Procs :
         LET pr == proc[p]
             nx == proc'[p]
         IN  /\ (pr.pc \in {"loop"} \cup InTransfer /\ nx.pc = "loop" /\ nx.idx = pr.idx + 1) =>
                  LET e   == pr.employees[pr.idx]
                      key == make_idempotency_key(e.name, pr.period, e.amount_cents)
                      succeeded ==
                        \/ pr.pc = "loop" /\ e.amount_cents > 0 /\ is_already_processed(ledger, key)
                        \/ pr.pc = "record" /\ pr.result.success
                  IN  /\ nx.transfer_ok = IF succeeded THEN Append(pr.transfer_ok, e.name)
                                          ELSE pr.transfer_ok
                      /\ nx.transfer_fail = IF succeeded THEN pr.transfer_fail
                                            ELSE Append(pr.transfer_fail, e.name)
                      /\ e.amount_cents <= 0 =>
                           /\ ~succeeded
                           /\ ledger' = ledger
                           /\ key \notin DOMAIN ledger'
                      /\ CountedOnce(nx, pr.idx)
             /\ (pr.pc \in {"loop", "pending"} \cup InTransfer
                   /\ nx.pc \in {"loop", "pending", "done"} \cup InTransfer
                   /\ nx.idx = pr.idx) =>
                  /\ nx.transfer_ok = pr.transfer_ok
                  /\ nx.transfer_fail = pr.transfer_fail
             /\ (pr.pc = "loop" /\ nx.pc = "done") =>
                  /\ nx.returned = "summary"
                  /\ nx.employees = pr.employees
                  /\ CountedOnce(nx, Len(nx.employees))]_vars

\* A run has returned its summary for a roster of two: the first employee had
\* no amount and is listed as failed without a ledger row, the second was
\* skipped as already processed and is listed as succeeded.
C38_Witness ==
    \E p \in Procs :
      LET pr == proc[p]
      IN  /\ pr.pc = "done"
          /\ pr.returned = "summary"
          /\ Len(pr.employees) = 2
          /\ pr.employees[1].amount_cents <= 0
          /\ pr.employees[2].amount_cents > 0
          /\ pr.key = make_idempotency_key(pr.employees[2].name, pr.period,
                                           pr.employees[2].amount_cents)
          /\ pr.startStatus = "success"
          /\ pr.transfer_ok = <<pr.employees[2].name>>
          /\ pr.transfer_fail = <<pr.employees[1].name>>
          /\ \A k \in DOMAIN ledger : ledger[k].employee_name # pr.employees[1].name


\* C39: within one process_pdf run every saved page has an output path of
\* its own: no path occurs twice in saved_files, so no saved payslip is
\* overwritten by a later page.
C39_OwnArtifact ==
    \A p \in Procs :
      LET pd == proc[p].pdf
      IN  \A i, j \in DOMAIN pd.saved_files :
            i # j => pd.saved_files[i] # pd.saved_files[j]


\* The row is the row of this very disbursement intent: normalized name,
\* period and amount.
SameIntent(row, name, period, amount_cents) ==
    /\ Lower(Strip(row.employee_name)) = Lower(Strip(name))
    /\ row.period = period
    /\ row.amount_cents = amount_cents

\* C40: the key identifies the disbursement intent: triples that differ in a
\* component have different keys and different ledger rows.  So the row the
\* loop finds under an employee's key, when it finds one, is the row of that
\* employee's own triple, and so is the row record_pending leaves there.
C40_KeyIdentifiesIntent ==
    [][\A p \in Procs :
         LET pr == proc[p]
             nx == proc'[p]
         IN  /\ (pr.pc = "loop" /\ nx.pc \in {"loop", "pending"} /\ nx # pr) =>
                  LET e   == pr.employees[pr.idx]
                      key == make_idempotency_key(e.name, pr.period, e.amount_cents)
                  IN  key \in DOMAIN ledger =>
                        SameIntent(ledger[key], e.name, pr.period, e.amount_cents)
             /\ (pr.pc = "pending" /\ nx.pc = "verify") =>
                  LET e == pr.employees[pr.idx]
                  IN  SameIntent(ledger'[pr.key], e.name, pr.period, e.amount_cents)]_vars

====
